---- MODULE Spec2Model ----
(***************************************************************************)
(* Model of lendingclub.Order (src/lendingclub/__init__.py) together with  *)
(* the parts of LendingClub, Session and FilterByLoanID that Order.execute *)
(* and Order.assign_to_portfolio call.                                     *)
(*                                                                         *)
(* The library is single threaded and every remote call blocks.  A call    *)
(* that performs no remote request (add, update, add_batch, remove,        *)
(* remove_all, a rejected execute) is one action.  execute() and           *)
(* assign_to_portfolio() block on the remote server several times; pc is   *)
(* the position of the caller inside them, and each action below runs the  *)
(* code from one remote request up to the next one (or up to the return /  *)
(* raise).  A finished call leaves pc = "done" with its arguments in call,  *)
(* its outcome in result, the requests it handed to the Session in sent    *)
(* and the Order as it was when the call started in before; the caller     *)
(* then goes on to its next call (Continue).  While pc # "idle" no other   *)
(* call can start.                                                         *)
(*                                                                         *)
(* Session (src/lendingclub/session.py) is modelled below the Order: its   *)
(* clock, last_request_time, credentials and what it logs.  Spec runs the  *)
(* Order against a Session reduced to the answers it gives (SessionErrors, *)
(* the parsed responses); SessionSpec runs request() and authenticate()    *)
(* themselves against the HTTP server.                                     *)
(*                                                                         *)
(* Three more specifications share the variables: FilterSpec runs the     *)
(* calls on a lendingclub.filters.Filter (and LendingClub.search with     *)
(* it), BuildSpec runs LendingClub.build_portfolio, and ConcurrentSpec     *)
(* runs request() of one Session from two threads.                         *)
(*                                                                         *)
(* BatchSpec runs add_batch on lists of several elements, RetrySpec and    *)
(* ReauthSpec run the Order and the Session with a record of how the call  *)
(* before ended, NoteSpec runs LendingClub.get_note over the pages of      *)
(* my_notes, ScanSpec runs the scanner of SavedFilter.load on one text,    *)
(* and SavedSpec runs the calls on a lendingclub.filters.SavedFilter.      *)
(*                                                                         *)
(* Python values: None is <<>> and a present value x is <<x>>.  Loan ids   *)
(* and amounts are ints.  Python asserts are enabled (no -O).              *)
(***************************************************************************)
EXTENDS Integers, Sequences, FiniteSets, TLC

\* ---------------------------------------------------------------- bounds
MaxLoan == 2            \* loan ids the caller uses: 1..MaxLoan
MaxUnits == 2           \* largest amount the caller passes, in units of $25
MaxBatch == 2           \* longest list passed to add_batch
MaxResults == 2         \* longest loan list in a search response
MaxOrderId == 1         \* largest order id in a confirmation page
MaxMinutes == 22        \* the clock of SessionSpec stops after this many minutes
MaxRecords == 2         \* longest loan list handed to Filter.validate
MaxOptions == 4         \* longest option list build_portfolio gets
MaxAuth == 3            \* authenticate() calls the concurrent model follows
MaxPages == 2           \* full pages of notes the largest account holds
MaxText == 4            \* characters of a text after its first bracket

None == <<>>
Some(x) == <<x>>
IsNone(v) == v = <<>>
Val(v) == v[1]

LoanIds == 1..MaxLoan
\* the server may also know a loan the caller never asked for
ServerLoanIds == 1..(MaxLoan + 1)
\* amounts the caller tries: the multiples of 25 from -25 on, and 26
Amounts == {25 * k : k \in (0 - 1)..MaxUnits} \cup {26}
OptAmounts == {None} \cup {Some(a) : a \in Amounts}
\* invest_amount of a dict: missing, zero, a multiple of 25, not a multiple
InvestAmounts == {None, Some(0), Some(25), Some(26)}

\* The loan_id argument of add(), and an element of the list of add_batch():
\* an int, a dict (with or without the keys loan_id and invest_amount), or a
\* value of another type (None, a float, ...).
LoanArgs ==
    {[kind |-> "int", loan_id |-> Some(l), invest_amount |-> None] : l \in LoanIds}
    \cup {[kind |-> "other", loan_id |-> None, invest_amount |-> None]}
    \cup {[kind |-> "dict", loan_id |-> None, invest_amount |-> None]}
    \cup {[kind |-> "dict", loan_id |-> Some(l), invest_amount |-> a] :
             l \in LoanIds, a \in InvestAmounts}

BatchLists == UNION {[1..n -> LoanArgs] : n \in 0..MaxBatch}

\* portfolio_name argument: None, the empty string, or a name
PortfolioNames == {"A", "B"}
PortfolioArgs == {"None", ""} \cup PortfolioNames
\* Python truthiness of the portfolio_name argument
Truthy(name) == name \notin {"None", ""}

VARIABLES
    loans,                  \* Order.loans: loan_id -> amount
    order_id,               \* Order.order_id
    already_staged,         \* Order.__already_staged
    i_know_what_im_doing,   \* Order.__i_know_what_im_doing
    pc,                     \* position of the caller inside execute / assign
    call,                   \* name and arguments of the running / last call
    staged,                 \* loans already iterated by the staging loop
    token,                  \* local `token` of execute
    method,                 \* query['method'] chosen in assign_to_portfolio
    sent,                   \* requests the call handed to Session.get / post,
                            \* each with the answer it got (of a search
                            \* answer: is its loan list empty, does it hold a
                            \* loan that was not asked for, its totalRecords)
    result,                 \* outcome of the running / last call
    before,                 \* history: loans and order_id when the call began
                            \* (of a Session call: clock, last_request_time
                            \* and credentials when it began)
    placed,                 \* history: order ids returned by __place_order
    now,                    \* time.time(), in seconds
    last_request_time,      \* Session.last_request_time
    email,                  \* Session.email
    pass,                   \* Session.__pass
    trace,                  \* history of the running / last Session call:
                            \* authenticate() entries, HTTP calls with their
                            \* outcome, messages passed to the logger and the
                            \* value of the exception raised, in order
    filter,                 \* the items of a Filter (a dict subclass)
    normalizing,            \* Filter.__normalizing
    seen,                   \* what the last read of the Filter returned
    scan,                   \* locals i, match_index, match_option of the
                            \* option loop of build_portfolio
    callers,                \* threads that call Session.request
    cpc,                    \* position of each of them inside request()
    session,                \* Session.__session: the requests.Session object
    logging_in,             \* per caller: the object its running
                            \* authenticate() created, 0 when none
    posted,                 \* per caller: the object that carries its
                            \* HTTP call in flight, 0 when none
    logged_in,              \* objects that carried a login that succeeded
    auth_calls,             \* history: invocations of authenticate()
    stale,                  \* history: a request went out on an object
                            \* whose authenticate() had not ended
    prior,                  \* history: how the call before this one ended
    account,                \* the server: how many notes the account holds
    index,                  \* local `index` of get_note
    saved,                  \* the SavedFilter: json_text and its items
    scanned                 \* the text load() scanned, and its json_text

vars == <<loans, order_id, already_staged, i_know_what_im_doing, pc, call,
          staged, token, method, sent, result, before, placed,
          now, last_request_time, email, pass, trace,
          filter, normalizing, seen, scan,
          callers, cpc, session, logging_in, posted, logged_in, auth_calls, stale,
          prior, account, index, saved, scanned>>

\* the Session, and the Order with what Order.execute keeps
svars == <<now, last_request_time, email, pass, trace>>
ovars == <<loans, order_id, already_staged, i_know_what_im_doing,
           staged, token, method, sent, placed>>

\* the Filter, the option loop, and the concurrent callers of the Session
fvars == <<filter, normalizing, seen>>
cvars == <<callers, cpc, session, logging_in, posted, logged_in, auth_calls, stale>>
\* what the Order's calls leave alone, and the history of the call before
yvars == <<fvars, scan, cvars>>
\* the notes of the account, and the variables no call above touches
nvars == <<account, index>>
\* the saved filter
wvars == <<saved, scanned>>
others == <<prior, nvars, wvars>>
xvars == <<yvars, others>>
\* what the calls on the Session leave alone: all of it but the object
\* Session.__session and the objects that are logged in
zvars == <<fvars, scan, callers, cpc, logging_in, posted, auth_calls, stale, others>>

\* Session.session_timeout, in minutes, and timeout_sec of __continue_session
session_timeout == 10
timeout_sec == session_timeout * 60

locals == <<staged, token, method>>
flags == <<already_staged, i_know_what_im_doing>>

EmptyMap == [l \in {} |-> 0]

\* Python True and False; a flag of a Filter may also hold None
True == Some(TRUE)
False == Some(FALSE)
Flags == {True, False}

\* the grades of the model (the class has A to G) and the keys of the facets
GradeLetters == {"A", "B"}
GradeKeys == {"All"} \cup GradeLetters
TermKeys == {"Year3", "Year5"}

\* the items Filter.__init__ sets before it merges its argument
DefaultFilter ==
    [term |-> [k \in TermKeys |-> True],
     exclude_existing |-> True,
     funding_progress |-> Some(0),
     grades |-> [k \in GradeKeys |-> IF k = "All" THEN True ELSE False]]

\* i, match_index and match_option before the option loop
NoScan == [i |-> 0, match_index |-> 0 - 1, match_option |-> None]

\* the threads of the concurrent model
Callers == {1, 2}
NoToken == [name |-> "", value |-> ""]
NoCall == [op |-> ""]

\* outcome of a call: the exception raised ("none" when it returned,
\* "running" while it runs) and what it returned ("None", "order_id" = the
\* value of self.order_id, "True")
NoResult == [exc |-> "none", ret |-> "None"]
Returned(ret) == [exc |-> "none", ret |-> ret]
Raised(exc) == [exc |-> exc, ret |-> "None"]
Running == [exc |-> "running", ret |-> "None"]

\* no SavedFilter has been loaded, and load() has scanned no text
NoSavedFilter == [json_text |-> None, items |-> EmptyMap]
NoText == [text |-> <<>>, json_text |-> <<>>]

\* Order.__init__ via LendingClub.start_order
Init ==
    /\ loans = EmptyMap
    /\ order_id = 0
    /\ already_staged = FALSE
    /\ i_know_what_im_doing = FALSE
    /\ pc = "idle"
    /\ call = NoCall
    /\ staged = {}
    /\ token = NoToken
    /\ method = ""
    /\ sent = <<>>
    /\ result = NoResult
    /\ before = [loans |-> EmptyMap, order_id |-> 0]
    /\ placed = <<>>
    /\ now = timeout_sec
    /\ last_request_time = 0
    /\ email = "e1"
    /\ pass = "p1"
    /\ trace = <<>>
    /\ filter = DefaultFilter
    /\ normalizing = FALSE
    /\ seen = None
    /\ scan = NoScan
    /\ callers = {1}
    /\ cpc = [c \in Callers |-> "idle"]
    /\ session = 0
    /\ logging_in = [c \in Callers |-> 0]
    /\ posted = [c \in Callers |-> 0]
    /\ logged_in = {}
    /\ auth_calls = 0
    /\ stale = FALSE
    /\ prior = "none"
    /\ account = 0
    /\ index = 0
    /\ saved = NoSavedFilter
    /\ scanned = NoText

\* the caller has the outcome of its call and goes on to its next call
NextCall ==
    /\ pc = "done"
    /\ pc' = "idle"
    /\ call' = NoCall
    /\ result' = NoResult
    /\ sent' = <<>>
    /\ staged' = {}
    /\ token' = NoToken
    /\ method' = ""
    /\ before' = [loans |-> loans, order_id |-> order_id]
    /\ UNCHANGED <<loans, order_id, flags, placed, svars, yvars>>

Continue == NextCall /\ UNCHANGED others

\* --------------------------------------------------- add / update / remove

\* variant: an amount already stored for the loan is kept (dict.setdefault)
Put_KeepFirst(m, l, a) ==
    [k \in DOMAIN m \cup {l} |-> IF k \in DOMAIN m THEN m[k] ELSE a]

\* dict assignment self.loans[loan_id] = amount
Put(m, l, a) == [k \in DOMAIN m \cup {l} |-> IF k = l THEN a ELSE m[k]]
\* del self.loans[loan_id]
Del(m, l) == [k \in DOMAIN m \ {l} |-> m[k]]

\* variant: the assert without `amount > 0`
AmountOk_NoPositive(amount) == amount % 25 = 0

\* the first assert of Order.add
AmountOk(amount) == amount > 0 /\ amount % 25 = 0

\* variant: add refuses to touch an Order that has been placed
add_RejectWhenPlaced(m, arg, amount) ==
    IF order_id # 0 \/ ~AmountOk(amount)
    THEN [loans |-> m, exc |-> "AssertionError"]
    ELSE IF arg.kind = "dict" /\ IsNone(arg.loan_id)
    THEN [loans |-> m, exc |-> "AssertionError"]
    ELSE IF arg.kind = "other"
    THEN [loans |-> m, exc |-> "AssertionError"]
    ELSE [loans |-> Put(m, Val(arg.loan_id), amount), exc |-> "none"]

\* Order.add(loan_id, amount) on mapping m: the new mapping and the exception
add(m, arg, amount) ==
    IF ~AmountOk(amount)
    THEN [loans |-> m, exc |-> "AssertionError"]
    ELSE IF arg.kind = "dict" /\ IsNone(arg.loan_id)
    THEN [loans |-> m, exc |-> "AssertionError"]
    ELSE IF arg.kind = "other"
    THEN [loans |-> m, exc |-> "AssertionError"]
    ELSE [loans |-> Put(m, Val(arg.loan_id), amount), exc |-> "none"]

\* the loop of Order.add_batch over list[i..], with batch_amount
RECURSIVE add_batch_loop(_, _, _, _)
add_batch_loop(m, list, i, batch_amount) ==
    IF i > Len(list)
    THEN [loans |-> m, exc |-> "none"]
    ELSE LET loan == list[i]
             isdict == loan.kind = "dict"
             \* `batch_amount or 'invest_amount' in loan`
             batchTruthy == ~IsNone(batch_amount) /\ Val(batch_amount) # 0
             amount == IF isdict /\ IsNone(batch_amount) /\ ~IsNone(loan.invest_amount)
                       THEN loan.invest_amount
                       ELSE batch_amount
         IN IF isdict /\ IsNone(loan.loan_id)
            THEN [loans |-> m, exc |-> "AssertionError"]
            ELSE IF isdict /\ ~(batchTruthy \/ ~IsNone(loan.invest_amount))
            THEN [loans |-> m, exc |-> "AssertionError"]
            ELSE IF IsNone(amount)
            THEN [loans |-> m, exc |-> "AssertionError"]
            ELSE IF Val(amount) % 25 # 0
            THEN [loans |-> m, exc |-> "AssertionError"]
            ELSE LET r == add(m, [kind |-> IF isdict THEN "int" ELSE loan.kind,
                                  loan_id |-> loan.loan_id,
                                  invest_amount |-> None], Val(amount))
                 IN IF r.exc # "none"
                    THEN r
                    ELSE add_batch_loop(r.loans, list, i + 1, batch_amount)

\* add_batch without the check of the type of loans
add_batch_NoListCheck(m, islist, list, batch_amount) ==
    IF ~(IsNone(batch_amount) \/ Val(batch_amount) % 25 = 0)
    THEN [loans |-> m, exc |-> "AssertionError"]
    ELSE add_batch_loop(m, list, 1, batch_amount)

\* Order.add_batch(loans, batch_amount); islist is `type(loans) is list`
add_batch(m, islist, list, batch_amount) ==
    IF ~(IsNone(batch_amount) \/ Val(batch_amount) % 25 = 0)
    THEN [loans |-> m, exc |-> "AssertionError"]
    ELSE IF ~islist
    THEN [loans |-> m, exc |-> "AssertionError"]
    ELSE add_batch_loop(m, list, 1, batch_amount)

\* Order.remove(loan_id)
remove(m, l) == IF l \in DOMAIN m THEN Del(m, l) ELSE m

\* Order.remove_all()
remove_all(m) == EmptyMap

\* a call c that hands nothing to the Session and returns or raises at once
Local(c, m, exc) ==
    /\ pc' = "done"
    /\ call' = c
    /\ loans' = m
    /\ result' = IF exc = "none" THEN Returned("None") ELSE Raised(exc)
    /\ UNCHANGED <<order_id, flags, locals, sent, before, placed, svars, xvars>>

Add ==
    /\ pc = "idle"
    /\ \E arg \in LoanArgs, amount \in Amounts :
        LET r == add(loans, arg, amount)
        IN Local([op |-> "add", arg |-> arg, amount |-> amount], r.loans, r.exc)

Update ==
    /\ pc = "idle"
    /\ \E arg \in LoanArgs, amount \in Amounts :
        LET r == add(loans, arg, amount)
        IN Local([op |-> "update", arg |-> arg, amount |-> amount], r.loans, r.exc)

AddBatch ==
    /\ pc = "idle"
    /\ \E islist \in BOOLEAN, list \in BatchLists, batch_amount \in OptAmounts :
        /\ (~islist => list = <<>>)
        /\ LET r == add_batch(loans, islist, list, batch_amount)
           IN Local([op |-> "add_batch", islist |-> islist,
                     batch_amount |-> batch_amount], r.loans, r.exc)

Remove ==
    /\ pc = "idle"
    /\ \E l \in LoanIds :
        Local([op |-> "remove", loan_id |-> l], remove(loans, l), "none")

RemoveAll ==
    /\ pc = "idle"
    /\ Local([op |-> "remove_all"], remove_all(loans), "none")

\* ------------------------------------------------------- remote requests

\* Session.request raises NetworkError when the HTTP call fails, and
\* AuthenticationError when the re-authentication of __continue_session
\* fails before the request goes out.
SessionErrors == {"NetworkError", "AuthenticationError"}

\* variant: a Session error always reaches the caller as it is
session_error_Propagated(req, err) == err

\* the exception the caller gets when the Session raises err in request req:
\* __get_strut_token and __place_order catch every Exception and raise
\* LendingClubError in its place, the other steps catch nothing
session_error(req, err) ==
    IF req \in {"token", "place"} THEN "LendingClubError" ELSE err

\* variant: every answer counts as a success
json_success_Always(rsp) == TRUE

\* Session.json_success on the parsed answer
json_success(rsp) == rsp = "success"

\* the running call raises exc
Abort(exc) ==
    /\ pc' = "done"
    /\ result' = Raised(exc)

\* the running call returns ret
Return(ret) ==
    /\ pc' = "done"
    /\ result' = Returned(ret)

\* str.strip() on the attribute values the model uses
Strip(s) ==
    CASE s = " " -> ""
      [] s = " T1 " -> "T1"
      [] s = " bad\n\tlogin " -> "bad\n\tlogin"
      [] OTHER -> s

\* value attribute of <input name="struts.token.name">, "absent": no such tag
TokenNameAttrs == {"absent", "", " ", "token"}
\* value attribute of the input named by it, "absent": no such tag
TokenValueAttrs == {"absent", "", " ", " T1 "}

\* the element with id order_id in the confirmation page: absent, holding
\* an int, or holding text that is not an int
OrderFields == {"absent", "notint", "int"}
OrderFieldInts == (0 - 1)..MaxOrderId

\* a loan of a search response: its loanGUID and whether it has a loanGrade
SearchLoans == [guid : ServerLoanIds, graded : BOOLEAN]
SearchLists == UNION {[1..n -> SearchLoans] : n \in 0..MaxResults}

\* ---------------------------------------------------------------- execute

\* variants: `assert self.order_id <= 0`; the first assert missing; the
\* second assert missing
execute_asserts_PositiveOnly(oid, m) == ~(oid > 0) /\ Cardinality(DOMAIN m) > 0
execute_asserts_NoPlacedCheck(oid, m) == Cardinality(DOMAIN m) > 0
execute_asserts_NoEmptyCheck(oid, m) == oid = 0

\* the two asserts at the top of Order.execute
execute_asserts(oid, m) == oid = 0 /\ Cardinality(DOMAIN m) > 0

\* variant: __stage_order stages whatever the flags say
stages_Always(staged_flag, know_flag) == TRUE

\* __stage_order goes on to stage: not both flags are True
stages(staged_flag, know_flag) == ~(staged_flag /\ know_flag)

\* variant: execute never stages, it goes to the token page at once
Execute_NeverStages ==
    /\ pc = "idle"
    /\ \E name \in PortfolioArgs :
        /\ call' = [op |-> "execute", portfolio_name |-> name]
        /\ IF ~execute_asserts(order_id, loans)
           THEN /\ result' = Raised("AssertionError")
                /\ pc' = "done"
           ELSE /\ result' = Running
                /\ pc' = "token"
        /\ UNCHANGED <<loans, order_id, flags, locals, sent, before, placed, svars, xvars>>

\* Order.execute(portfolio_name): the two asserts, then __stage_order up to
\* its first request (or, when staging is skipped, up to the token request)
Execute ==
    /\ pc = "idle"
    /\ \E name \in PortfolioArgs :
        /\ call' = [op |-> "execute", portfolio_name |-> name]
        /\ IF ~execute_asserts(order_id, loans)
           THEN /\ result' = Raised("AssertionError")
                /\ pc' = "done"
           ELSE /\ result' = Running
                /\ pc' = IF stages(already_staged, i_know_what_im_doing)
                         THEN "clear" ELSE "token"
        /\ UNCHANGED <<loans, order_id, flags, locals, sent, before, placed, svars, xvars>>

\* Session.clear_session_order: the response is not looked at
ClearSessionOrder ==
    /\ pc = "clear"
    /\ \E rsp \in {"ok", "failed"} \cup SessionErrors :
        /\ sent' = Append(sent, [req |-> "clear", rsp |-> rsp])
        /\ IF rsp \in SessionErrors
           THEN Abort(session_error("clear", rsp))
           ELSE pc' = "search" /\ UNCHANGED result
        /\ UNCHANGED <<loans, order_id, flags, call, locals, before, placed, svars, xvars>>

\* Filter.validate of FilterByLoanID(ids) on list[i..]: the exception raised
RECURSIVE validate(_, _, _)
validate(ids, list, i) ==
    IF i > Len(list) THEN "none"
    ELSE IF list[i].guid \notin ids THEN "FilterValidationError"
    ELSE IF ~list[i].graded THEN "KeyError"
    ELSE validate(ids, list, i + 1)

\* variant: totalRecords is not compared with the number of loans
search_for_staging_NoCountCheck(m, rsp, list, totalRecords) ==
    IF ~json_success(rsp) THEN "TypeError"
    ELSE IF validate(DOMAIN m, list, 1) # "none" THEN validate(DOMAIN m, list, 1)
    ELSE IF Len(list) = 0
    THEN "LendingClubError"
    ELSE "none"

\* the exception raised by the search of __stage_order and by the checks on
\* its result
search_for_staging(m, rsp, list, totalRecords) ==
    IF ~json_success(rsp) THEN "TypeError"
    ELSE IF validate(DOMAIN m, list, 1) # "none" THEN validate(DOMAIN m, list, 1)
    ELSE IF Len(list) = 0 \/ totalRecords # Cardinality(DOMAIN m)
    THEN "LendingClubError"
    ELSE "none"

\* __stage_order: LendingClub.search(FilterByLoanID(loan_ids))
StageSearch ==
    /\ pc = "search"
    /\ \E rsp \in {"error", "success"} \cup SessionErrors,
       list \in SearchLists, totalRecords \in 0..MaxResults :
        /\ (rsp # "success" => list = <<>> /\ totalRecords = 0)
        /\ sent' = Append(sent, [req |-> "search", loan_ids |-> DOMAIN loans,
                                 rsp |-> rsp, empty |-> list = <<>>,
                                 foreign |-> {list[j].guid : j \in 1..Len(list)}
                                                \ DOMAIN loans # {},
                                 totalRecords |-> totalRecords])
        /\ IF rsp \in SessionErrors
           THEN Abort(session_error("search", rsp))
           ELSE LET exc == search_for_staging(loans, rsp, list, totalRecords)
                IN IF exc # "none"
                   THEN Abort(exc)
                   ELSE /\ pc' = IF DOMAIN loans = {} THEN "finalize" ELSE "stage"
                        /\ UNCHANGED result
        /\ UNCHANGED <<loans, order_id, flags, call, locals, before, placed, svars, xvars>>

\* __stage_order: one round of the loop over self.loans.iteritems()
StageLoan ==
    /\ pc = "stage"
    /\ \E l \in DOMAIN loans \ staged, rsp \in {"error", "success"} \cup SessionErrors :
        /\ sent' = Append(sent, [req |-> "stage", loan_id |-> l,
                                 amount |-> loans[l], rsp |-> rsp])
        /\ IF rsp \in SessionErrors
           THEN Abort(session_error("stage", rsp)) /\ UNCHANGED staged
           ELSE IF ~json_success(rsp)
           THEN Abort("LendingClubError") /\ UNCHANGED staged
           ELSE /\ staged' = staged \cup {l}
                /\ pc' = IF staged' = DOMAIN loans THEN "finalize" ELSE "stage"
                /\ UNCHANGED result
        /\ UNCHANGED <<loans, order_id, flags, call, token, method, before, placed, svars, xvars>>

\* __stage_order: the addToPortfolioNew request; has_message is whether the
\* answer has the key `message`
StageFinalize ==
    /\ pc = "finalize"
    /\ \E rsp \in {"error", "success"} \cup SessionErrors, has_message \in BOOLEAN :
        /\ (rsp # "success" => ~has_message)
        /\ sent' = Append(sent, [req |-> "finalize", rsp |-> rsp,
                                 has_message |-> has_message])
        /\ CASE rsp \in SessionErrors -> Abort(session_error("finalize", rsp))
             [] rsp \notin SessionErrors /\ ~json_success(rsp) -> Abort("TypeError")
             [] rsp \notin SessionErrors /\ json_success(rsp) /\ ~has_message
                  -> Abort("KeyError")
             [] OTHER -> pc' = "token" /\ UNCHANGED result
        /\ UNCHANGED <<loans, order_id, flags, call, locals, before, placed, svars, xvars>>

\* variant: the value of struts.token.name is not checked for emptiness
get_strut_token_NoNameCheck(name, value) ==
    IF name # "absent" /\ value # "absent" /\ Strip(value) # ""
    THEN Some([name |-> name, value |-> Strip(value)])
    ELSE None

\* the token __get_strut_token returns for a page, None when it raises
get_strut_token(name, value) ==
    IF name # "absent" /\ Strip(name) # "" /\ value # "absent" /\ Strip(value) # ""
    THEN Some([name |-> name, value |-> Strip(value)])
    ELSE None

\* Order.__get_strut_token
GetStrutToken ==
    /\ pc = "token"
    /\ \E rsp \in {"page"} \cup SessionErrors,
       name \in TokenNameAttrs, value \in TokenValueAttrs :
        /\ (rsp # "page" => name = "absent")
        /\ (name = "absent" => value = "absent")
        /\ sent' = Append(sent, [req |-> "token", rsp |-> rsp,
                                 name |-> name, value |-> value])
        /\ IF rsp \in SessionErrors
           THEN Abort(session_error("token", rsp)) /\ UNCHANGED token
           ELSE IF IsNone(get_strut_token(name, value))
           THEN Abort("LendingClubError") /\ UNCHANGED token
           ELSE /\ token' = Val(get_strut_token(name, value))
                /\ pc' = "place"
                /\ UNCHANGED result
        /\ UNCHANGED <<loans, order_id, flags, call, staged, method, before, placed, svars, xvars>>

\* variant: `assert self.order_id >= 0`
assign_asserts_NonNegative(oid) == oid >= 0

\* the assert at the top of Order.assign_to_portfolio
assign_asserts(oid) == oid > 0

\* variant: without the `if order_id == 0: raise`
place_order_NoZeroCheck(field, n) ==
    IF field = "notint" THEN None ELSE Some(IF field = "int" THEN n ELSE 0)

\* the order id __place_order returns for a confirmation page, None when
\* it raises
place_order(field, n) ==
    IF field = "int" /\ n # 0 THEN Some(n) ELSE None

\* Order.__place_order and the rest of execute after it
PlaceOrder ==
    /\ pc = "place"
    /\ \E rsp \in {"page"} \cup SessionErrors,
       field \in OrderFields, n \in OrderFieldInts :
        /\ (rsp # "page" => field = "absent")
        /\ (field # "int" => n = 0)
        /\ IF token.value = ""
           THEN /\ Abort("LendingClubError")
                /\ UNCHANGED <<sent, order_id, placed>>
           ELSE /\ sent' = Append(sent, [req |-> "place", name |-> token.name,
                                         value |-> token.value, rsp |-> rsp,
                                         field |-> field, n |-> n])
                /\ IF rsp \in SessionErrors
                   THEN /\ Abort(session_error("place", rsp))
                        /\ UNCHANGED <<order_id, placed>>
                   ELSE IF IsNone(place_order(field, n))
                   THEN Abort("LendingClubError") /\ UNCHANGED <<order_id, placed>>
                   ELSE /\ order_id' = Val(place_order(field, n))
                        /\ placed' = Append(placed, order_id')
                        /\ IF ~Truthy(call.portfolio_name)
                           THEN Return("order_id")
                           ELSE IF ~assign_asserts(order_id')
                           THEN Abort("AssertionError")
                           ELSE pc' = "folios" /\ UNCHANGED result
        /\ UNCHANGED <<loans, flags, call, locals, before, svars, xvars>>

\* ---------------------------------------------------- assign_to_portfolio

\* Order.assign_to_portfolio(portfolio_name) called by the user
AssignToPortfolio ==
    /\ pc = "idle"
    /\ \E name \in PortfolioArgs :
        /\ call' = [op |-> "assign_to_portfolio", portfolio_name |-> name]
        /\ IF ~assign_asserts(order_id)
           THEN /\ result' = Raised("AssertionError")
                /\ pc' = "done"
           ELSE /\ result' = Running
                /\ pc' = "folios"
        /\ UNCHANGED <<loans, order_id, flags, locals, sent, before, placed, svars, xvars>>

\* variant: an existing bucket is used whenever the caller has one
choose_method_AnyExisting(name, existing) ==
    IF existing # {} THEN "addToLCPortfolio" ELSE "createLCPortfolio"

\* the method LendingClub.assign_to_portfolio chooses
choose_method(name, existing) ==
    IF name \in existing THEN "addToLCPortfolio" ELSE "createLCPortfolio"

\* LendingClub.assign_to_portfolio: get_portfolio_list and the choice
GetPortfolioList ==
    /\ pc = "folios"
    /\ \E rsp \in {"error", "success"} \cup SessionErrors,
       names \in SUBSET PortfolioNames :
        /\ (rsp # "success" => names = {})
        /\ sent' = Append(sent, [req |-> "folios", rsp |-> rsp, names |-> names])
        /\ IF rsp \in SessionErrors
           THEN Abort(session_error("folios", rsp)) /\ UNCHANGED method
           ELSE /\ method' = choose_method(call.portfolio_name,
                                           IF json_success(rsp) THEN names ELSE {})
                /\ pc' = "assign"
                /\ UNCHANGED result
        /\ UNCHANGED <<loans, order_id, flags, call, staged, token, before, placed, svars, xvars>>

\* LendingClub.assign_to_portfolio: the POST and the check of its answer;
\* answered is the portfolioName of the answer, "absent" when it has none
PostAssign ==
    /\ pc = "assign"
    /\ \E rsp \in {"error", "success"} \cup SessionErrors,
       answered \in {"absent"} \cup PortfolioNames :
        /\ (rsp # "success" => answered = "absent")
        /\ sent' = Append(sent, [req |-> "assign", method |-> method,
                                 name |-> call.portfolio_name,
                                 loan_ids |-> DOMAIN loans,
                                 order_ids |-> [l \in DOMAIN loans |-> order_id],
                                 rsp |-> rsp, answered |-> answered])
        /\ CASE rsp \in SessionErrors -> Abort(session_error("assign", rsp))
             [] rsp \notin SessionErrors /\ ~json_success(rsp)
                  -> Abort("LendingClubError")
             [] rsp \notin SessionErrors /\ json_success(rsp)
                /\ answered # "absent" /\ answered # call.portfolio_name
                  -> Abort("LendingClubError")
             [] OTHER -> Return("True")
        /\ UNCHANGED <<loans, order_id, flags, call, locals, before, placed, svars, xvars>>

\* ---------------------------------------------------------------- Session

Abs(x) == IF x < 0 THEN 0 - x ELSE x

MaxTime == MaxMinutes * 60
\* seconds that pass between two calls of the caller
Elapsed == {60, 540, 600}
\* seconds an HTTP call blocks
Durations == {0, 60}

Emails == {"e1", "e2"}
Passwords == {"p1", "p2"}
\* the arguments of authenticate(email, password): None or a new value
EmailArgs == {None, Some("e2")}
PasswordArgs == {None, Some("p2")}

\* the method argument of request(), upper-cased; PUT is not supported
Methods == {"GET", "POST", "PUT"}
Supported == {"POST", "GET", "HEAD", "DELETE"}

LoginUrl == "https://www.lendingclub.com/account/login.action"
SummaryUrl == "https://www.lendingclub.com/account/summary.action"

\* response_url.split('/')[-1]
Endpoint(url) ==
    CASE url = LoginUrl -> "login.action"
      [] url = SummaryUrl -> "summary.action"

\* text of the element with id master_error-list, "absent": no such element
ErrorBlocks == {"absent", " ", " bad\n\tlogin "}

\* re.sub('\t+', '', errors)
RemoveTabs(t) ==
    CASE t = "bad\n\tlogin" -> "bad\nlogin"
      [] OTHER -> t

\* re.sub('\s*\n+\s*', ' * ', errors)
JoinLines(t) ==
    CASE t = "bad\nlogin" -> "bad * login"
      [] OTHER -> t

\* the errors authenticate scrapes from the page, None when there are none
scrape_errors(block) ==
    IF block = "absent"
    THEN None
    ELSE LET errors == JoinLines(RemoveTabs(Strip(block)))
         IN IF errors = "" THEN None ELSE Some(errors)

\* the answer to the login POST (redirects are not followed): status code,
\* Location header, error block of the page, and the x-echo-query and
\* x-echo-data headers ("posted": the header holds the posted credentials)
LoginResponses ==
    {r \in [status : {200, 302},
            location : {"absent", LoginUrl, SummaryUrl},
            block : ErrorBlocks,
            echo_query : {"absent", "posted"},
            echo_data : {"absent", "other", "posted"}] :
        (r.status = 302) <=> (r.location # "absent")}

\* response_url of authenticate
response_url(r) == IF r.status = 302 THEN r.location ELSE LoginUrl

\* variant: the redirect is looked at before the error block
authenticate_outcome_RedirectFirst(r) ==
    IF Endpoint(response_url(r)) = "login.action"
    THEN [exc |-> "AuthenticationError",
          value |-> IF IsNone(scrape_errors(r.block))
                    THEN "Unknown! Redirected back to the login page"
                    ELSE Val(scrape_errors(r.block))]
    ELSE [exc |-> "none", value |-> ""]

\* what authenticate makes of the login response: the exception it raises
\* ("none" when it returns True) and the value the exception carries
authenticate_outcome(r) ==
    IF ~IsNone(scrape_errors(r.block))
    THEN [exc |-> "AuthenticationError", value |-> Val(scrape_errors(r.block))]
    ELSE IF Endpoint(response_url(r)) = "login.action"
    THEN [exc |-> "AuthenticationError",
          value |-> "Unknown! Redirected back to the login page"]
    ELSE [exc |-> "none", value |-> ""]

\* variant: `diff > timeout_sec`
session_expired_Strict(t, last) == Abs(t - last) > timeout_sec

\* the test of __continue_session at time t
session_expired(t, last) == Abs(t - last) >= timeout_sec

\* variant: the time is recorded in a finally clause
request_time_Always(last, t, responded) == t

\* last_request_time after the HTTP call of request() ended at time t
request_time(last, t, responded) == IF responded THEN t ELSE last

\* a message passed to the logger; data: the credentials its text contains
Log(msg, data) == [ev |-> "log", msg |-> msg, data |-> data]

\* variant: the password is logged with the email
attempt_message_WithPassword(e, p) == Log("Attempting to authenticate", {e, p})

\* the first message of authenticate
attempt_message(e, p) == Log("Attempting to authenticate", {e})

\* what an x-echo header holds of the posted payload
echoed(header, payload) ==
    IF header = "posted"
    THEN {payload.login_email, payload.login_password}
    ELSE {}

\* the debugging messages of authenticate about the login response
login_logs(r, payload) ==
    <<Log("Status code", {}), Log("Redirected to", {}), Log("Cookies", {})>>
    \o (IF r.echo_query # "absent"
        THEN <<Log("Query", echoed(r.echo_query, payload))>> ELSE <<>>)
    \o (IF r.echo_data # "absent"
        THEN <<Log("Data", echoed(r.echo_data, payload))>> ELSE <<>>)

\* the Session as the call found it
Snapshot ==
    [now |-> now, last_request_time |-> last_request_time,
     email |-> email, pass |-> pass, session |-> session]

\* request() after __continue_session, up to the HTTP call; t: the trace so far
SendRequest(m, t) ==
    /\ trace' = t \o <<Log("request to", {})>>
    /\ IF m \in Supported
       THEN pc' = "http" /\ result' = Running
       ELSE Abort("SessionError")

\* variant: authenticate() keeps the requests.Session it finds
new_session_Reused(s) == IF s = 0 THEN 1 ELSE s

\* `requests.Session()`: an object that is not the one __session holds (s);
\* the object replaced two calls ago is gone and its name is free again
new_session(s) == IF s = 1 THEN 2 ELSE 1

\* authenticate() with the credentials e, p up to the HTTP call of its login
\* POST; the request() of that POST runs __continue_session again
AuthenticateStart(e, p, t) ==
    /\ session' = new_session(session)
    /\ logged_in' = logged_in \ {session'}
    /\ last_request_time' = now
    /\ LET t2 == t \o <<[ev |-> "authenticate", email |-> e, password |-> p,
                         at |-> now, created |-> new_session(session)],
                        attempt_message(e, p)>>
       IN IF session_expired(now, now)
          THEN \* authenticate would call itself without end
               /\ trace' = t2 \o <<Log("Session timed out", {})>>
               /\ Abort("RuntimeError")
          ELSE /\ trace' = t2 \o <<Log("request to", {})>>
               /\ pc' = "login"
               /\ result' = Running

\* Session.request(method, path): __continue_session, then the request
Request ==
    /\ pc = "idle"
    /\ \E m \in Methods :
        /\ call' = [op |-> "request", method |-> m]
        /\ before' = Snapshot
        /\ IF session_expired(now, last_request_time)
           THEN AuthenticateStart(email, pass, <<Log("Session timed out", {})>>)
           ELSE SendRequest(m, <<>>)
                /\ UNCHANGED <<last_request_time, session, logged_in>>
        /\ UNCHANGED <<now, email, pass, ovars, zvars>>

\* Session.authenticate(email, password) called by the user
Authenticate ==
    /\ pc = "idle"
    /\ \E e \in EmailArgs, p \in PasswordArgs :
        /\ call' = [op |-> "authenticate", email |-> e, password |-> p]
        /\ before' = Snapshot
        /\ email' = IF IsNone(e) THEN email ELSE Val(e)
        /\ pass' = IF IsNone(p) THEN pass ELSE Val(p)
        /\ AuthenticateStart(email', pass', <<>>)
        /\ UNCHANGED <<now, ovars, zvars>>

\* the login POST of authenticate ends: a transport failure, or a response
\* that authenticate examines; after a re-authentication that succeeded,
\* request() goes on to its own HTTP call
LoginResponse ==
    /\ pc = "login"
    /\ \E d \in Durations, responded \in BOOLEAN, r \in LoginResponses :
        /\ now + d <= MaxTime
        /\ (~responded => r.status = 200 /\ r.block = "absent"
                          /\ r.echo_query = "absent" /\ r.echo_data = "absent")
        /\ now' = now + d
        /\ last_request_time' = request_time(last_request_time, now', responded)
        /\ LET payload == [login_email |-> email, login_password |-> pass]
               http == [ev |-> "http", path |-> "login", payload |-> payload,
                        at |-> now', responded |-> responded, response |-> r,
                        on |-> session]
               out == authenticate_outcome(r)
               t == trace \o <<http>> \o login_logs(r, payload)
           IN IF ~responded
              THEN /\ trace' = trace \o <<http, [ev |-> "raise",
                                                 exc |-> "NetworkError",
                                                 value |-> "POST failed"]>>
                   /\ Abort("NetworkError")
              ELSE IF out.exc # "none"
              THEN /\ trace' = t \o <<[ev |-> "raise", exc |-> out.exc,
                                       value |-> out.value]>>
                   /\ Abort(out.exc)
              ELSE IF call.op = "authenticate"
              THEN trace' = t /\ Return("True")
              ELSE SendRequest(call.method, t)
        /\ logged_in' = IF responded /\ authenticate_outcome(r).exc = "none"
                        THEN logged_in \cup {session} ELSE logged_in
        /\ UNCHANGED <<call, before, email, pass, session, ovars, zvars>>

\* the HTTP call of request() ends: a response or a transport failure
HttpResponse ==
    /\ pc = "http"
    /\ \E d \in Durations, responded \in BOOLEAN :
        /\ now + d <= MaxTime
        /\ now' = now + d
        /\ last_request_time' = request_time(last_request_time, now', responded)
        /\ trace' = Append(trace, [ev |-> "http", path |-> "call",
                                   method |-> call.method, at |-> now',
                                   responded |-> responded, on |-> session])
        /\ IF responded THEN Return("response") ELSE Abort("NetworkError")
        /\ UNCHANGED <<call, before, email, pass, session, logged_in, ovars, zvars>>

\* time passes between two calls
SessionTick ==
    /\ pc = "idle"
    /\ \E d \in Elapsed :
        /\ now + d <= MaxTime
        /\ now' = now + d
    /\ UNCHANGED <<pc, call, result, before, last_request_time, email, pass,
                   trace, session, logged_in, ovars, zvars>>

\* the caller has the outcome of its Session call and goes on
NextSessionCall ==
    /\ pc = "done"
    /\ pc' = "idle"
    /\ call' = NoCall
    /\ result' = NoResult
    /\ trace' = <<>>
    /\ before' = [loans |-> EmptyMap, order_id |-> 0]
    /\ UNCHANGED <<now, last_request_time, email, pass, session, logged_in,
                   ovars, fvars, scan, callers, cpc, logging_in, posted,
                   auth_calls, stale>>

SessionContinue == NextSessionCall /\ UNCHANGED others

SessionNext ==
    \/ Request
    \/ Authenticate
    \/ LoginResponse
    \/ HttpResponse
    \/ SessionTick
    \/ SessionContinue

SessionSpec == Init /\ [][SessionNext]_vars

\* The same calls, with the caller remembering how its last call ended:
\* "reauthentication" when it was a request() that raised out of the
\* authenticate() that its __continue_session ran, "call" after any other.
request_ended ==
    IF /\ call.op = "request"
       /\ result.exc \in {"NetworkError", "AuthenticationError"}
       /\ \E i \in DOMAIN trace : trace[i].ev = "authenticate"
       /\ \A i \in DOMAIN trace : trace[i].ev = "http" => trace[i].path = "login"
    THEN "reauthentication" ELSE "call"

\* the caller has the outcome of its call, keeps how it ended and goes on
ReauthContinue ==
    NextSessionCall /\ prior' = request_ended /\ UNCHANGED <<nvars, wvars>>

ReauthNext ==
    \/ Request
    \/ Authenticate
    \/ LoginResponse
    \/ HttpResponse
    \/ SessionTick
    \/ ReauthContinue

ReauthSpec == Init /\ [][ReauthNext]_vars

Next ==
    \/ Add
    \/ Update
    \/ AddBatch
    \/ Remove
    \/ RemoveAll
    \/ Execute
    \/ ClearSessionOrder
    \/ StageSearch
    \/ StageLoan
    \/ StageFinalize
    \/ GetStrutToken
    \/ PlaceOrder
    \/ AssignToPortfolio
    \/ GetPortfolioList
    \/ PostAssign
    \/ Continue

Spec == Init /\ [][Next]_vars

\* ------------------------------------------------------------------ Filter
\* lendingclub.filters.Filter is a dict whose __getitem__ and __setitem__
\* normalize it.  filter holds its four items; a facet map is a function
\* from its keys to True, False or None.  A call on the Filter is one action
\* (search() blocks once on the server); it ends in pc = "done" with the
\* Filter as the call found it in before.

PartialMaps(K, V) == UNION {[S -> V] : S \in SUBSET K}

\* the dict given for the grades: any keys of the facet and a key it does
\* not have, with values of the right type or None
GradeDicts ==
    {m \in PartialMaps(GradeKeys \cup {"Z"}, Flags \cup {None}) :
        "Z" \in DOMAIN m => m["Z"] = True}
TermDicts == PartialMaps(TermKeys, Flags \cup {None})
\* a value given for a facet map: a dict, or a value of another type
FacetArgs(dicts) ==
    {[kind |-> "dict", items |-> m] : m \in dicts}
    \cup {[kind |-> "other", items |-> <<>>]}

\* values given for funding_progress: None or an int
ProgressArgs == {None} \cup {Some(p) : p \in {55, 56, 63, 67, 90}}

\* type(a) is type(b) for flags and None
SameType(a, b) == (a \in Flags) <=> (b \in Flags)

\* variant: the assert on the type is missing
merge_values_Unchecked(from, to) ==
    {[exc |-> "none",
      dict |-> [k \in DOMAIN to |-> IF k \in DOMAIN from THEN from[k] ELSE to[k]]]}

\* Filter.__merge_values into a facet map: only the keys the map has are
\* merged, each after the assert on its type.  The keys are visited in the
\* order of the given dict, which Python does not fix: when a key fails the
\* assert, any of the keys that pass may have been merged before it.
merge_values(from, to) ==
    LET common == DOMAIN from \cap DOMAIN to
        good == {k \in common : SameType(to[k], from[k])}
        merged(S) == [k \in DOMAIN to |-> IF k \in S THEN from[k] ELSE to[k]]
    IN IF good = common
       THEN {[exc |-> "none", dict |-> merged(common)]}
       ELSE {[exc |-> "AssertionError", dict |-> merged(S)] : S \in SUBSET good}

\* variant: the enabled grades are cleared and All is kept
normalize_grades_ClearLetters(f) ==
    IF f.grades["All"] = True /\ \E k \in GradeLetters : f.grades[k] = True
    THEN [f EXCEPT !.grades = [k \in GradeKeys |-> IF k = "All" THEN True ELSE False]]
    ELSE f

\* Filter.__normalize_grades
normalize_grades(f) ==
    IF f.grades["All"] = True /\ \E k \in GradeLetters : f.grades[k] = True
    THEN [f EXCEPT !.grades["All"] = False]
    ELSE f

\* Python 2 round(x / 10.0) * 10 for an int x: halves go away from zero
RoundTens(p) ==
    IF p >= 0
    THEN ((p + 5) \div 10) * 10
    ELSE 0 - ((((0 - p) + 5) \div 10) * 10)

\* Filter.__normalize_progress on an int
normalize_progress(p) == IF p % 10 # 0 THEN RoundTens(p) ELSE p

\* Filter.__normalize: nothing while __normalizing is set; `None % 10` is a
\* TypeError, which leaves __normalizing set
normalize(f, nz) ==
    IF nz
    THEN [filter |-> f, normalizing |-> nz, exc |-> "none"]
    ELSE LET g == normalize_grades(f)
         IN IF IsNone(g.funding_progress)
            THEN [filter |-> g, normalizing |-> TRUE, exc |-> "TypeError"]
            ELSE [filter |-> [g EXCEPT !.funding_progress =
                                  Some(normalize_progress(Val(@)))],
                  normalizing |-> FALSE, exc |-> "none"]

\* the call ends with the Filter as normalize left it
Normalized(n) ==
    /\ filter' = n.filter
    /\ normalizing' = n.normalizing
    /\ pc' = "done"
    /\ result' = IF n.exc = "none" THEN Returned("None") ELSE Raised(n.exc)

\* Filter(filters) with one facet given, or Filter() (facet "none"): the
\* defaults, the merge, then __normalize.  When the merge fails there is no
\* new Filter.
Construct ==
    /\ pc = "idle"
    /\ \E facet \in {"none", "grades", "term", "funding_progress"} :
       \E value \in CASE facet = "none" -> {None}
                      [] facet = "grades" -> FacetArgs(GradeDicts)
                      [] facet = "term" -> FacetArgs(TermDicts)
                      [] facet = "funding_progress" -> ProgressArgs :
        /\ call' = [op |-> "Filter", key |-> facet, value |-> value]
        /\ before' = [filter |-> filter, normalizing |-> normalizing]
        /\ CASE facet = "none" -> Normalized(normalize(DefaultFilter, FALSE))
             [] facet = "funding_progress" ->
                    IF IsNone(value)
                    THEN Abort("AssertionError") /\ UNCHANGED <<filter, normalizing>>
                    ELSE Normalized(normalize(
                             [DefaultFilter EXCEPT !.funding_progress = value],
                             FALSE))
             [] OTHER ->
                    IF value.kind # "dict"
                    THEN Abort("AssertionError") /\ UNCHANGED <<filter, normalizing>>
                    ELSE \E m \in merge_values(value.items, DefaultFilter[facet]) :
                            IF m.exc # "none"
                            THEN Abort(m.exc) /\ UNCHANGED <<filter, normalizing>>
                            ELSE Normalized(normalize(
                                     [DefaultFilter EXCEPT ![facet] = m.dict],
                                     FALSE))
        /\ seen' = None
        /\ UNCHANGED <<scan, cvars, svars, ovars, others>>

\* filter['grades'] = value: the merge into the grades the Filter has, a
\* read of the grades, then __normalize
SetGrades ==
    /\ pc = "idle"
    /\ \E value \in FacetArgs(GradeDicts) :
        /\ call' = [op |-> "setitem", key |-> "grades", value |-> value]
        /\ before' = [filter |-> filter, normalizing |-> normalizing]
        /\ IF value.kind # "dict"
           THEN Abort("AssertionError") /\ UNCHANGED <<filter, normalizing>>
           ELSE \E m \in merge_values(value.items, filter.grades) :
                   LET f == [filter EXCEPT !.grades = m.dict]
                       n == normalize(f, normalizing)
                   IN IF m.exc # "none"
                      THEN /\ Abort(m.exc)
                           /\ filter' = f
                           /\ UNCHANGED normalizing
                      ELSE IF n.exc # "none"
                      THEN Normalized(n)
                      ELSE Normalized(normalize(n.filter, n.normalizing))
        /\ seen' = None
        /\ UNCHANGED <<scan, cvars, svars, ovars, others>>

\* filter[key] = value for another key: the value is stored as it is, then
\* __normalize
SetItem ==
    /\ pc = "idle"
    /\ \E key \in {"term", "funding_progress", "exclude_existing"} :
       \E value \in CASE key = "term" -> TermDicts
                      [] key = "funding_progress" -> ProgressArgs
                      [] key = "exclude_existing" -> Flags :
        /\ call' = [op |-> "setitem", key |-> key, value |-> value]
        /\ before' = [filter |-> filter, normalizing |-> normalizing]
        /\ Normalized(normalize([filter EXCEPT ![key] = value], normalizing))
        /\ seen' = None
        /\ UNCHANGED <<scan, cvars, svars, ovars, others>>

\* filter[facet][key] = value: a read of the facet map, then an assignment
\* on that map, which the Filter does not see
SetNested ==
    /\ pc = "idle"
    /\ \E facet \in {"grades", "term"} :
       \E key \in (IF facet = "grades" THEN GradeKeys ELSE TermKeys),
          value \in Flags :
        LET n == normalize(filter, normalizing)
        IN /\ call' = [op |-> "setnested", facet |-> facet, key |-> key,
                       value |-> value]
           /\ before' = [filter |-> filter, normalizing |-> normalizing]
           /\ normalizing' = n.normalizing
           /\ pc' = "done"
           /\ IF n.exc # "none"
              THEN filter' = n.filter /\ result' = Raised(n.exc)
              ELSE /\ filter' = [n.filter EXCEPT
                                    ![facet] = Put(n.filter[facet], key, value)]
                   /\ result' = Returned("None")
           /\ seen' = None
           /\ UNCHANGED <<scan, cvars, svars, ovars, others>>

\* filter[key]: __normalize, then the item
GetItem ==
    /\ pc = "idle"
    /\ \E key \in {"grades", "term", "funding_progress", "exclude_existing"} :
        LET n == normalize(filter, normalizing)
        IN /\ call' = [op |-> "getitem", key |-> key]
           /\ before' = [filter |-> filter, normalizing |-> normalizing]
           /\ Normalized(n)
           /\ seen' = IF n.exc = "none" THEN Some(n.filter[key]) ELSE None
           /\ UNCHANGED <<scan, cvars, svars, ovars, others>>

\* filter.search_string(): __normalize, then the template is rendered from
\* the items (seen: the items it renders)
SearchString ==
    /\ pc = "idle"
    /\ LET n == normalize(filter, normalizing)
       IN /\ call' = [op |-> "search_string"]
          /\ before' = [filter |-> filter, normalizing |-> normalizing]
          /\ Normalized(n)
          /\ seen' = IF n.exc = "none" THEN Some(n.filter) ELSE None
          /\ UNCHANGED <<scan, cvars, svars, ovars, others>>

\* a loan record of a search response.  loanGrade is the grade with its
\* sub-grade; the amounts are ints; alreadyInvestedIn is a Python bool.
BaseLoan ==
    [loanGrade |-> "A1", loanLength |-> 36, loanUnfundedAmount |-> 0,
     loanAmountRequested |-> 100, alreadyInvestedIn |-> FALSE]
AllLoans ==
    [loanGrade : {"A1", "B2"}, loanLength : {36, 60},
     loanUnfundedAmount : {0, 23, 100}, loanAmountRequested : {100},
     alreadyInvestedIn : BOOLEAN]
LoanFields ==
    {"loanGrade", "loanLength", "loanUnfundedAmount", "alreadyInvestedIn"}
\* the records the server answers with: the base loan, the loans that differ
\* from it in one field, and the loan that differs from it in every field
LoanRecords ==
    {r \in AllLoans :
        \/ Cardinality({k \in LoanFields : r[k] # BaseLoan[k]}) <= 1
        \/ /\ \A k \in LoanFields : r[k] # BaseLoan[k]
           /\ r.loanUnfundedAmount = 100}
LoanLists == UNION {[1..n -> LoanRecords] : n \in 0..MaxRecords}

\* loan['loanGrade'][0]
GradeLetter(g) ==
    CASE g = "A1" -> "A"
      [] g = "B2" -> "B"

\* Python 2 `a / b` on ints (b > 0): floor division
IntDiv(a, b) == a \div b

\* loan_progress of validate_one
loan_progress(loan) ==
    (1 - IntDiv(loan.loanUnfundedAmount, loan.loanAmountRequested)) * 100

\* Python 2 `threshold > progress`: None is smaller than every number
progress_fails(threshold, progress) ==
    IF IsNone(threshold) THEN FALSE ELSE Val(threshold) > progress

NoFailure == [exc |-> "none", criteria |-> ""]
Invalid(criteria) == [exc |-> "FilterValidationError", criteria |-> criteria]

\* Filter.validate_one on a Filter with the items f: the first check that
\* fails, in the order of the code
validate_one(f, loan) ==
    LET grade == GradeLetter(loan.loanGrade)
        year == IF loan.loanLength = 36 THEN "Year3" ELSE "Year5"
    IN IF f.grades["All"] # True /\ grade \notin DOMAIN f.grades
       THEN Invalid("grade")
       ELSE IF f.grades["All"] # True /\ f.grades[grade] = False
       THEN Invalid("grade")
       ELSE IF loan.loanLength \in {36, 60} /\ year \notin DOMAIN f.term
       THEN [exc |-> "KeyError", criteria |-> ""]
       ELSE IF loan.loanLength \in {36, 60} /\ f.term[year] = False
       THEN Invalid("loan term")
       ELSE IF progress_fails(f.funding_progress, loan_progress(loan))
       THEN Invalid("funding progress")
       ELSE IF f.exclude_existing = True /\ loan.alreadyInvestedIn
       THEN Invalid("exclude loans you are invested in")
       ELSE NoFailure

\* Filter.validate from record i on: the first record that raises, with what
\* it raises; index 0 when the loop ends and validate returns True
RECURSIVE validate_from(_, _, _)
validate_from(f, list, i) ==
    IF i > Len(list)
    THEN [exc |-> "none", criteria |-> "", index |-> 0]
    ELSE LET one == validate_one(f, list[i])
         IN IF one.exc # "none"
            THEN [exc |-> one.exc, criteria |-> one.criteria, index |-> i]
            ELSE validate_from(f, list, i + 1)

\* filter.validate(results): the first item validate_one reads normalizes
\* the Filter; an empty list reads nothing.  checked: the outcome with the
\* record and the criteria the error carries; ret: what the caller of
\* validate returns when it returns True.
ValidateResults(list, ret) ==
    LET n == IF list = <<>>
             THEN [filter |-> filter, normalizing |-> normalizing, exc |-> "none"]
             ELSE normalize(filter, normalizing)
        v == validate_from(n.filter, list, 1)
    IN /\ filter' = n.filter
       /\ normalizing' = n.normalizing
       /\ pc' = "done"
       /\ IF n.exc # "none"
          THEN result' = Raised(n.exc) /\ seen' = None
          ELSE IF v.exc # "none"
          THEN result' = Raised(v.exc) /\ seen' = Some(v)
          ELSE result' = Returned(ret) /\ seen' = Some(v)

Validate ==
    /\ pc = "idle"
    /\ \E list \in LoanLists :
        /\ call' = [op |-> "validate", list |-> list]
        /\ before' = [filter |-> filter, normalizing |-> normalizing]
        /\ ValidateResults(list, "True")
        /\ UNCHANGED <<scan, cvars, svars, ovars, others>>

\* LendingClub.search(filters) up to its request: filters.search_string()
Search ==
    /\ pc = "idle"
    /\ LET n == normalize(filter, normalizing)
       IN /\ call' = [op |-> "search"]
          /\ before' = [filter |-> filter, normalizing |-> normalizing]
          /\ filter' = n.filter
          /\ normalizing' = n.normalizing
          /\ IF n.exc # "none"
             THEN Abort(n.exc)
             ELSE pc' = "browse" /\ result' = Running
          /\ seen' = None
          /\ UNCHANGED <<scan, cvars, svars, ovars, others>>

\* the answer of the search request: json_success fails and search returns
\* False, or the loans are validated and the results returned
SearchResponse ==
    /\ pc = "browse"
    /\ \E success \in BOOLEAN, list \in LoanLists :
        /\ ~success => list = <<>>
        /\ call' = [op |-> "search", success |-> success, list |-> list]
        /\ IF ~success
           THEN /\ Return("False")
                /\ seen' = None
                /\ UNCHANGED <<filter, normalizing>>
           ELSE /\ ValidateResults(list, "results")
        /\ UNCHANGED <<before, scan, cvars, svars, ovars, others>>

\* the caller has the outcome of its call on the Filter and goes on
FilterContinue ==
    /\ pc = "done"
    /\ pc' = "idle"
    /\ call' = NoCall
    /\ result' = NoResult
    /\ seen' = None
    /\ before' = [loans |-> EmptyMap, order_id |-> 0]
    /\ UNCHANGED <<filter, normalizing, scan, cvars, svars, ovars, others>>

FilterNext ==
    \/ Construct
    \/ SetGrades
    \/ SetItem
    \/ SetNested
    \/ GetItem
    \/ SearchString
    \/ Validate
    \/ Search
    \/ SearchResponse
    \/ FilterContinue

FilterSpec == Init /\ [][FilterNext]_vars

\* --------------------------------------------------------- build_portfolio
\* LendingClub.build_portfolio(cash, max_per_note, min_percent, max_percent,
\* filters, automatically_invest, do_not_clear_staging).  It blocks on five
\* requests, and on two more when it invests; pc is its position, sent the
\* requests with their answers, and scan the locals of the loop over the
\* options, one option per step.  filters is None or the Filter of the
\* variable filter, a Filter() that nothing has been assigned to (its
\* normalization changes nothing).  With automatically_invest the Order
\* that build_portfolio starts is the Order of the variables loans,
\* order_id and the two flags, and its execute() goes on with GetStrutToken
\* and PlaceOrder; what execute() returns is the order_id that
\* build_portfolio puts into the option it returns.

\* the percentage of an option, and the min_percent / max_percent given
OptionPercents == {9, 12, 15, 18}
OptionLists == UNION {[1..n -> OptionPercents] : n \in 0..MaxOptions}
MinPercents == {10, 15, 16}
MaxPercents == {15, 16}
\* max_per_note given
PerNotes == {24, 25}
\* a loan fraction of the getPortfolio answer: its loan_id and
\* loanFractionAmount, and the loan fields validate reads
Fraction(l, a, invested) ==
    [loan_id |-> Some(l), loanFractionAmount |-> a,
     loan |-> [BaseLoan EXCEPT !.alreadyInvestedIn = invested]]
\* the loanFractions answered: none, fractions that pass, a fraction over
\* max_per_note, a fraction the Filter rejects, one of each, and an amount
\* that is no multiple of 25
FractionLists ==
    {<<>>,
     <<Fraction(1, 25, FALSE)>>,
     <<Fraction(1, 25, FALSE), Fraction(2, 25, FALSE)>>,
     <<Fraction(1, 25, FALSE), Fraction(2, 50, FALSE)>>,
     <<Fraction(1, 25, FALSE), Fraction(2, 25, TRUE)>>,
     <<Fraction(1, 25, TRUE), Fraction(2, 50, FALSE)>>,
     <<Fraction(1, 25, FALSE), Fraction(2, 10, FALSE)>>}
\* the arguments automatically_invest, do_not_clear_staging and filters of
\* the calls made (do_not_clear_staging is read only without investing)
BuildModes ==
    {m \in [automatically_invest : BOOLEAN, do_not_clear_staging : BOOLEAN,
            filters : {"None", "Filter"}] :
        m.do_not_clear_staging
            => ~m.automatically_invest /\ m.filters = "None"}

\* what a build_portfolio step leaves alone
build_frame ==
    <<loans, order_id, flags, locals, before, placed, svars, fvars, cvars, others>>

\* the answers to the lendingMatchOptionsV2 request: the success flag of
\* the JSON, lmOptions (absent, no list, a list) and numberTicks
OptionAnswers ==
    [success : BOOLEAN, lmOptions : {"absent", "other", "list"},
     numberTicks : {0, 1}]

\* build_portfolio up to the request of clear_session_order
BuildPortfolio ==
    /\ pc = "idle"
    /\ \E per_note \in PerNotes, lo \in MinPercents, hi \in MaxPercents,
          m \in BuildModes :
        /\ call' = [op |-> "build_portfolio", max_per_note |-> per_note,
                    min_percent |-> lo, max_percent |-> hi,
                    do_not_clear_staging |-> m.do_not_clear_staging,
                    automatically_invest |-> m.automatically_invest,
                    filters |-> m.filters,
                    \* of the order.execute() it may run: no portfolio name
                    portfolio_name |-> "None"]
        /\ IF per_note >= 25
           THEN pc' = "build_clear" /\ result' = Running
           ELSE Abort("AssertionError")
        /\ UNCHANGED <<sent, scan, build_frame>>

\* clear_session_order answers (its answer is not looked at); the options
\* are requested
BuildClear ==
    /\ pc = "build_clear"
    /\ \E rsp \in {"ok", "failed"} \cup SessionErrors :
        /\ sent' = Append(sent, [req |-> "clear", rsp |-> rsp])
        /\ IF rsp \in SessionErrors
           THEN Abort(rsp)
           ELSE pc' = "build_options" /\ UNCHANGED result
        /\ UNCHANGED <<call, scan, build_frame>>

\* the options arrive: an error without a successful answer that has
\* lmOptions, False without a list or with numberTicks 0, else the loop
\* starts
BuildOptions ==
    /\ pc = "build_options"
    /\ \E err \in {"none"} \cup SessionErrors, rsp \in OptionAnswers,
          options \in OptionLists :
        /\ (err # "none" \/ rsp.lmOptions # "list") => options = <<>>
        /\ (err # "none") => (rsp.success /\ rsp.lmOptions = "list"
                               /\ rsp.numberTicks = 1)
        /\ sent' = Append(sent, [req |-> "options", err |-> err, rsp |-> rsp,
                                 options |-> options])
        /\ scan' = NoScan
        /\ IF err # "none"
           THEN Abort(err)
           ELSE IF ~(rsp.success /\ rsp.lmOptions # "absent")
           THEN Abort("LendingClubError")
           ELSE IF rsp.lmOptions # "list" \/ rsp.numberTicks = 0
           THEN Return("False")
           ELSE /\ pc' = IF options = <<>> THEN "build_scanned" ELSE "build_scan"
                /\ UNCHANGED result
        /\ UNCHANGED <<call, build_frame>>

\* variant: the loop does not stop at an option over max_percent
scan_step_NoOverMax(s, percentage, min_percent, max_percent) ==
    IF percentage = max_percent
    THEN [scan |-> [s EXCEPT !.match_option = Some(percentage),
                             !.match_index = s.i],
          break |-> TRUE]
    ELSE IF percentage <= max_percent /\ percentage >= min_percent
            /\ (IsNone(s.match_option) \/ Val(s.match_option) < percentage)
    THEN [scan |-> [s EXCEPT !.match_option = Some(percentage),
                             !.match_index = s.i, !.i = s.i + 1],
          break |-> FALSE]
    ELSE [scan |-> [s EXCEPT !.i = s.i + 1], break |-> FALSE]

\* one pass of the loop body on an option with this percentage
scan_step(s, percentage, min_percent, max_percent) ==
    IF percentage = max_percent
    THEN [scan |-> [s EXCEPT !.match_option = Some(percentage),
                             !.match_index = s.i],
          break |-> TRUE]
    ELSE IF percentage > max_percent
    THEN [scan |-> s, break |-> TRUE]
    ELSE IF percentage >= min_percent
            /\ (IsNone(s.match_option) \/ Val(s.match_option) < percentage)
    THEN [scan |-> [s EXCEPT !.match_option = Some(percentage),
                             !.match_index = s.i, !.i = s.i + 1],
          break |-> FALSE]
    ELSE [scan |-> [s EXCEPT !.i = s.i + 1], break |-> FALSE]

\* the options build_portfolio got
Options == sent[Len(sent)].options

\* the loop looks at the next option
ScanOption ==
    /\ pc = "build_scan"
    /\ LET step == scan_step(scan, Options[scan.i + 1], call.min_percent,
                             call.max_percent)
       IN /\ scan' = step.scan
          /\ pc' = IF step.break \/ step.scan.i = Len(Options)
                   THEN "build_scanned" ELSE "build_scan"
    /\ UNCHANGED <<call, result, sent, build_frame>>

\* after the loop: False when nothing matched, else the recommendPortfolio
\* request with lending_match_point = match_index
ScanEnd ==
    /\ pc = "build_scanned"
    /\ IF IsNone(scan.match_option)
       THEN Return("False")
       ELSE pc' = "build_recommend" /\ UNCHANGED result
    /\ UNCHANGED <<call, sent, scan, build_frame>>

\* recommendPortfolio answers (its answer is not looked at); the fractions
\* are requested
BuildRecommend ==
    /\ pc = "build_recommend"
    /\ \E err \in {"none"} \cup SessionErrors :
        /\ sent' = Append(sent, [req |-> "recommend", err |-> err,
                                 lending_match_point |-> scan.match_index])
        /\ IF err # "none"
           THEN Abort(err)
           ELSE pc' = "build_fractions" /\ UNCHANGED result
    /\ UNCHANGED <<call, scan, build_frame>>

\* variant: only the first fraction is compared with max_per_note
over_cap_FirstOnly(fractions, max_per_note) ==
    fractions # <<>> /\ fractions[1].loanFractionAmount > max_per_note

\* the loop over the fractions raises: one is over max_per_note
over_cap(fractions, max_per_note) ==
    \E k \in 1..Len(fractions) : fractions[k].loanFractionAmount > max_per_note

\* variant: the fractions are never validated
checks_filters_Never(filters) == FALSE

\* `if filters is not None` before filters.validate(fractions)
checks_filters(filters) == filters # "None"

\* order.add_batch(match_option['loan_fractions']) on the new Order
invest(fractions) ==
    add_batch(EmptyMap, TRUE,
              [k \in 1..Len(fractions) |->
                  [kind |-> "dict", loan_id |-> fractions[k].loan_id,
                   invest_amount |-> Some(fractions[k].loanFractionAmount)]],
              None)

\* the fractions arrive: an error when one is over max_per_note, False when
\* there are none, an error when the Filter given rejects one.  Without
\* automatically_invest the order session is cleared unless
\* do_not_clear_staging; with it a new Order gets the two flags and the
\* fractions, and its execute() runs up to its first request
BuildFractions ==
    /\ pc = "build_fractions"
    /\ \E err \in {"none"} \cup SessionErrors, fractions \in FractionLists :
        /\ err # "none" => fractions = <<>>
        /\ sent' = Append(sent, [req |-> "fractions", err |-> err,
                                 fractions |-> fractions])
        /\ LET n == normalize(filter, normalizing)
               v == validate_from(n.filter,
                                  [k \in 1..Len(fractions) |-> fractions[k].loan], 1)
               order == invest(fractions)
               invests == /\ err = "none"
                          /\ ~over_cap(fractions, call.max_per_note)
                          /\ Len(fractions) # 0
                          /\ checks_filters(call.filters)
                                => n.exc = "none" /\ v.exc = "none"
                          /\ call.automatically_invest
                          /\ order.exc = "none"
           IN /\ IF err # "none"
                 THEN Abort(err)
                 ELSE IF over_cap(fractions, call.max_per_note)
                 THEN Abort("LendingClubError")
                 ELSE IF Len(fractions) = 0
                 THEN Return("False")
                 ELSE IF checks_filters(call.filters) /\ n.exc # "none"
                 THEN Abort(n.exc)
                 ELSE IF checks_filters(call.filters) /\ v.exc # "none"
                 THEN Abort(v.exc)
                 ELSE IF ~call.automatically_invest
                 THEN IF call.do_not_clear_staging
                      THEN Return("match_option")
                      ELSE pc' = "build_reset" /\ UNCHANGED result
                 ELSE IF order.exc # "none"
                 THEN Abort(order.exc)
                 ELSE IF ~execute_asserts(order_id, order.loans)
                 THEN Abort("AssertionError")
                 ELSE /\ pc' = IF stages(TRUE, TRUE) THEN "clear" ELSE "token"
                      /\ UNCHANGED result
              /\ loans' = IF invests THEN order.loans ELSE loans
              /\ already_staged' = (invests \/ already_staged)
              /\ i_know_what_im_doing' = (invests \/ i_know_what_im_doing)
    /\ UNCHANGED <<call, scan, order_id, locals, before, placed, svars, fvars,
                   cvars, others>>

\* the last clear_session_order answers and build_portfolio returns
BuildReset ==
    /\ pc = "build_reset"
    /\ \E rsp \in {"ok", "failed"} \cup SessionErrors :
        /\ sent' = Append(sent, [req |-> "clear", rsp |-> rsp])
        /\ IF rsp \in SessionErrors
           THEN Abort(rsp)
           ELSE Return("match_option")
    /\ UNCHANGED <<call, scan, build_frame>>

\* the caller has the outcome of build_portfolio and goes on
BuildContinue ==
    /\ pc = "done"
    /\ pc' = "idle"
    /\ call' = NoCall
    /\ result' = NoResult
    /\ sent' = <<>>
    /\ scan' = NoScan
    /\ loans' = EmptyMap
    /\ order_id' = 0
    /\ already_staged' = FALSE
    /\ i_know_what_im_doing' = FALSE
    /\ token' = NoToken
    /\ placed' = <<>>
    /\ UNCHANGED <<staged, method, before, svars, fvars, cvars, others>>

BuildNext ==
    \/ BuildPortfolio
    \/ BuildClear
    \/ BuildOptions
    \/ ScanOption
    \/ ScanEnd
    \/ BuildRecommend
    \/ BuildFractions
    \/ BuildReset
    \/ GetStrutToken
    \/ PlaceOrder
    \/ BuildContinue

BuildSpec == Init /\ [][BuildNext]_vars

\* ------------------------------------------------- concurrent use of Session
\* Two threads call request() on one Session; nothing in session.py locks.
\* A step of a caller runs from one access to the shared Session
\* (last_request_time, __session) to the next, so the threads may interleave
\* between the test of __continue_session and authenticate(), and inside
\* authenticate().  The clock stands still: the model follows one expiry of
\* the session.  Session objects are numbered as authenticate() creates them.

\* what a step of a caller leaves alone
caller_frame ==
    <<pc, call, result, before, now, email, pass, trace, ovars, fvars, scan, others>>

\* variant: authenticate() does not touch last_request_time
auth_time_Kept(t, last) == last

\* last_request_time after `self.last_request_time = time.time()`
auth_time(t, last) == t

\* a second thread starts to use the Session
Spawn ==
    /\ callers = {1}
    /\ callers' = Callers
    /\ UNCHANGED <<cpc, session, logging_in, posted, logged_in, auth_calls,
                   stale, last_request_time, caller_frame>>

\* request() begins: the test of __continue_session
CallerRequest ==
    \E c \in callers :
        /\ cpc[c] = "idle"
        /\ cpc' = [cpc EXCEPT ![c] =
                      IF session_expired(now, last_request_time)
                      THEN "authenticate" ELSE "send"]
        /\ UNCHANGED <<callers, session, logging_in, posted, logged_in,
                       auth_calls, stale, last_request_time, caller_frame>>

\* authenticate() begins: a new requests.Session replaces __session
CallerNewSession ==
    \E c \in callers :
        /\ cpc[c] = "authenticate"
        /\ auth_calls < MaxAuth
        /\ auth_calls' = auth_calls + 1
        /\ session' = auth_calls + 1
        /\ logging_in' = [logging_in EXCEPT ![c] = auth_calls + 1]
        /\ cpc' = [cpc EXCEPT ![c] = "auth_time"]
        /\ UNCHANGED <<callers, posted, logged_in, stale, last_request_time,
                       caller_frame>>

\* authenticate() sets last_request_time
CallerAuthTime ==
    \E c \in callers :
        /\ cpc[c] = "auth_time"
        /\ last_request_time' = auth_time(now, last_request_time)
        /\ cpc' = [cpc EXCEPT ![c] = "login"]
        /\ UNCHANGED <<callers, session, logging_in, posted, logged_in,
                       auth_calls, stale, caller_frame>>

\* authenticate() posts the login through request(): the test of
\* __continue_session again (a session still expired makes authenticate()
\* call itself), then the POST goes out on the object __session holds now
CallerLoginPost ==
    \E c \in callers :
        /\ cpc[c] = "login"
        /\ IF session_expired(now, last_request_time)
           THEN cpc' = [cpc EXCEPT ![c] = "authenticate"] /\ UNCHANGED posted
           ELSE /\ cpc' = [cpc EXCEPT ![c] = "login_wait"]
                /\ posted' = [posted EXCEPT ![c] = session]
        /\ UNCHANGED <<callers, session, logging_in, logged_in, auth_calls,
                       stale, last_request_time, caller_frame>>

\* the login POST ends: the object that carried it is logged in, or
\* authenticate() raises and with it request()
CallerLoginResponse ==
    \E c \in callers, outcome \in {"ok", "rejected", "failed"} :
        /\ cpc[c] = "login_wait"
        /\ last_request_time' =
              request_time(last_request_time, now, outcome # "failed")
        /\ logged_in' = IF outcome = "ok"
                        THEN logged_in \cup {posted[c]} ELSE logged_in
        /\ logging_in' = [logging_in EXCEPT ![c] = 0]
        /\ posted' = [posted EXCEPT ![c] = 0]
        /\ cpc' = [cpc EXCEPT ![c] = IF outcome = "ok" THEN "send" ELSE "done"]
        /\ UNCHANGED <<callers, session, auth_calls, stale, caller_frame>>

\* the HTTP call of request() goes out on the object __session holds now
CallerSend ==
    \E c \in callers :
        /\ cpc[c] = "send"
        /\ posted' = [posted EXCEPT ![c] = session]
        /\ stale' = (stale \/ \E d \in callers : logging_in[d] # 0
                                                  /\ logging_in[d] = session)
        /\ cpc' = [cpc EXCEPT ![c] = "http"]
        /\ UNCHANGED <<callers, session, logging_in, logged_in, auth_calls,
                       last_request_time, caller_frame>>

\* the HTTP call ends and request() returns or raises
CallerResponse ==
    \E c \in callers, responded \in BOOLEAN :
        /\ cpc[c] = "http"
        /\ last_request_time' = request_time(last_request_time, now, responded)
        /\ posted' = [posted EXCEPT ![c] = 0]
        /\ cpc' = [cpc EXCEPT ![c] = "done"]
        /\ UNCHANGED <<callers, session, logging_in, logged_in, auth_calls,
                       stale, caller_frame>>

\* the caller goes on to its next request()
CallerContinue ==
    \E c \in callers :
        /\ cpc[c] = "done"
        /\ cpc' = [cpc EXCEPT ![c] = "idle"]
        /\ UNCHANGED <<callers, session, logging_in, posted, logged_in,
                       auth_calls, stale, last_request_time, caller_frame>>

ConcurrentNext ==
    \/ Spawn
    \/ CallerRequest
    \/ CallerNewSession
    \/ CallerAuthTime
    \/ CallerLoginPost
    \/ CallerLoginResponse
    \/ CallerSend
    \/ CallerResponse
    \/ CallerContinue

ConcurrentSpec == Init /\ [][ConcurrentNext]_vars

\* ------------------------------------------ execute() after a failed execute()
\* The Order workflow, with the caller remembering how its last call ended:
\* "placement" when it was an execute() that raised because the answer to
\* its placement request held no order id, "call" after any other call.
ended ==
    IF /\ call.op = "execute"
       /\ result.exc \notin {"none", "running"}
       /\ sent # <<>>
       /\ sent[Len(sent)].req = "place"
       /\ IsNone(place_order(sent[Len(sent)].field, sent[Len(sent)].n))
    THEN "placement" ELSE "call"

\* the caller has the outcome of its call, keeps how it ended and goes on
RetryContinue == NextCall /\ prior' = ended /\ UNCHANGED <<nvars, wvars>>

RetryNext ==
    \/ Add
    \/ Remove
    \/ Execute
    \/ ClearSessionOrder
    \/ StageSearch
    \/ StageLoan
    \/ StageFinalize
    \/ GetStrutToken
    \/ PlaceOrder
    \/ GetPortfolioList
    \/ PostAssign
    \/ RetryContinue

RetrySpec == Init /\ [][RetryNext]_vars

\* ------------------------------------------------ add_batch and its list
\* Order.add_batch seen with the list it was given.  The elements are those
\* of LoanArgs, and dicts that carry a second valid invest_amount, so that
\* two elements of one list can name the same loan with different amounts.
BatchItems ==
    LoanArgs \cup {[kind |-> "dict", loan_id |-> Some(l), invest_amount |-> Some(50)] :
                      l \in LoanIds}
ItemLists == UNION {[1..n -> BatchItems] : n \in 0..MaxBatch}

\* order.add_batch(loans, batch_amount), the call recorded with its list
AddBatchList ==
    /\ pc = "idle"
    /\ \E islist \in BOOLEAN, list \in ItemLists, batch_amount \in OptAmounts :
        /\ (~islist => list = <<>>)
        /\ LET r == add_batch(loans, islist, list, batch_amount)
           IN Local([op |-> "add_batch_list", islist |-> islist, list |-> list,
                     batch_amount |-> batch_amount], r.loans, r.exc)

BatchNext ==
    \/ AddBatchList
    \/ RemoveAll
    \/ Continue

BatchSpec == Init /\ [][BatchNext]_vars

\* ------------------------------------------------------------------ get_note
\* LendingClub.get_note(note_id).  The account holds the notes 1..account in
\* the order of sort_by='noteId'; note k has the id note_id_of(k), so that
\* between two notes there is an id that no note has.  The server answers
\* the request of my_notes(start_index) with the notes after start_index, at
\* most `limit` of them, none when start_index is past the last note.

\* limit=100 of my_notes, and the step `index += 100` of get_note
limit == 100
\* the sizes of the account: around each multiple of limit
AccountSizes ==
    {n \in 0..(MaxPages * limit + 1) : n % limit \in {0, 1, limit - 1}}
note_id_of(k) == 2 * k
\* the note ids asked for: up to one past the largest id of any account
NoteIds == 1..(note_id_of(MaxPages * limit + 1) + 1)

Min(a, b) == IF a < b THEN a ELSE b
\* json_response['searchresult']['loans'] for startindex i: the positions
\* of its notes
page(i) == (i + 1)..Min(i + limit, account)

\* what the rest of the model leaves alone while get_note runs
note_frame == <<ovars, svars, yvars, prior, before, wvars>>

\* the account gets or loses notes between two calls
AccountChanges ==
    /\ pc = "idle"
    /\ \E n \in AccountSizes : account' = n
    /\ UNCHANGED <<pc, call, result, index, note_frame>>

\* get_note(note_id) up to the request of its first my_notes()
GetNote ==
    /\ pc = "idle"
    /\ \E note_id \in NoteIds :
        /\ call' = [op |-> "get_note", note_id |-> note_id]
        /\ index' = 0
        /\ pc' = "notes"
        /\ result' = Running
    /\ UNCHANGED <<account, note_frame>>

\* one round of the loop of get_note on the notes at positions ks, the
\* answer being a success: what it raises or returns, "next" when it goes on
get_note_round(ks, note_id) ==
    IF ks = {}
    THEN Raised("IndexError")
    ELSE LET first == CHOOSE k \in ks : \A j \in ks : k <= j
             last == CHOOSE k \in ks : \A j \in ks : j <= k
         IN IF note_id_of(first) > note_id
            THEN Returned("False")
            ELSE IF /\ note_id_of(last) >= note_id
                    /\ \E k \in ks : note_id_of(k) = note_id
            THEN Returned("note")
            ELSE Running

\* my_notes(start_index=index, sort_by='noteId') answers, and get_note goes
\* through the page up to its next request
NotesPage ==
    /\ pc = "notes"
    /\ \E rsp \in {"success", "error"} \cup SessionErrors :
        /\ sent' = Append(sent, [req |-> "notes", startindex |-> index,
                                 rsp |-> rsp, loans |-> page(index)])
        /\ LET round == get_note_round(page(index), call.note_id)
           IN IF rsp \in SessionErrors
              THEN Abort(rsp) /\ UNCHANGED index
              ELSE IF ~json_success(rsp)
              THEN Return("False") /\ UNCHANGED index
              ELSE IF round = Running
              THEN /\ index' = index + limit
                   /\ UNCHANGED <<pc, result>>
              ELSE /\ pc' = "done"
                   /\ result' = round
                   /\ UNCHANGED index
    /\ UNCHANGED <<loans, order_id, flags, locals, placed, call, account,
                   svars, yvars, prior, before, wvars>>

\* the caller has the outcome of get_note and goes on
NoteContinue ==
    /\ pc = "done"
    /\ pc' = "idle"
    /\ call' = NoCall
    /\ result' = NoResult
    /\ sent' = <<>>
    /\ index' = 0
    /\ UNCHANGED <<loans, order_id, flags, locals, placed, account,
                   svars, yvars, prior, before, wvars>>

NoteNext ==
    \/ AccountChanges
    \/ GetNote
    \/ NotesPage
    \/ NoteContinue

NoteSpec == Init /\ [][NoteNext]_vars

\* ------------------------------------------------------------ SavedFilter

\* SavedFilter.load() (src/lendingclub/filters.py) asks the server for the
\* filter, cuts the answer down to the text that starts at the bracket
\* after "filter": and scans it character by character for the end of the
\* filter block.  A text is a sequence of characters; inQuote holds "False"
\* and lastChar holds "None" for the Python values False and None, which no
\* character equals.

blockChars == [c \in {"[", "{"} |-> IF c = "[" THEN "]" ELSE "}"]
quotes == {"'", "\""}

\* the loop `for char in text` from the character at i on: json_text when
\* the loop has ended
RECURSIVE scan_from(_, _, _)
scan_from(text, i, st) ==
    IF i > Len(text)
    THEN st.json_text
    ELSE LET char == text[i]
             json_text == Append(st.json_text, char)
         IN IF char = "\\"
            THEN scan_from(text, i + 1,
                     [st EXCEPT !.json_text = json_text,
                                !.lastChar = IF @ = "\\" THEN "" ELSE char])
            ELSE IF char \in quotes
            THEN scan_from(text, i + 1,
                     [st EXCEPT !.json_text = json_text,
                                !.inQuote = IF @ = "False" THEN char
                                            ELSE IF @ = char THEN "False"
                                            ELSE @,
                                !.lastChar = char])
            ELSE LET blockTracker ==
                         IF char \in DOMAIN blockChars
                         THEN <<blockChars[char]>> \o st.blockTracker
                         ELSE IF /\ Len(st.blockTracker) > 0
                                 /\ char = st.blockTracker[1]
                         THEN Tail(st.blockTracker)
                         ELSE st.blockTracker
                 IN IF Len(blockTracker) = 0 /\ st.lastChar # "None"
                    THEN json_text
                    ELSE scan_from(text, i + 1,
                             [st EXCEPT !.json_text = json_text,
                                        !.blockTracker = blockTracker,
                                        !.lastChar = char])

\* json_text of load() for the text that starts at the bracket
filter_block(text) ==
    scan_from(text, 1, [json_text |-> <<>>, inQuote |-> "False",
                        lastChar |-> "None", blockTracker |-> <<>>])

\* the characters the server's texts are made of: the brackets, a quote,
\* the escape character and one character that is none of these
Chars == {"[", "]", "{", "}", "\"", "\\", "a"}
\* what "filter": [ is followed by in an answer of the server, and the
\* texts the scan starts on
Rests == UNION {[1..n -> Chars] : n \in 0..MaxText}
Texts == {<<"[">> \o rest : rest \in Rests}

\* load() scans the text of an answer; a run scans one text
ScanText ==
    /\ scanned = NoText
    /\ \E text \in Texts :
        scanned' = [text |-> text, json_text |-> filter_block(text)]
    /\ UNCHANGED <<pc, call, result, before, saved, ovars, svars, yvars,
                   prior, nvars>>

ScanNext == ScanText

ScanSpec == Init /\ [][ScanNext]_vars

\* The SavedFilter object is its json_text and the items __analyze stores
\* in the dict.  SavedFilter.__init__ does not call Filter.__init__, so
\* _Filter__initialized keeps the class default False and the
\* Filter.__normalize that Filter.__getitem__ calls returns at once: reading
\* an item is dict.__getitem__.  json.loads is not modelled on the
\* characters: for the text load() extracted it raises, or yields the empty
\* list (whose [0] raises) or one of the filter lists of SavedJson.  An
\* m_value is the list of the 'value' strings of its entries.

name_map ==
    [m_id \in {10, 11, 13, 15, 38, 39, 43} |->
        CASE m_id = 10 -> "grades"
          [] m_id = 11 -> "loan_purpose"
          [] m_id = 13 -> "approved"
          [] m_id = 15 -> "funding_progress"
          [] m_id = 38 -> "exclude_existing"
          [] m_id = 39 -> "term"
          [] m_id = 43 -> "keyword"]

\* the filter lists the server keeps
SavedJson ==
    { <<[m_id |-> 10, m_value |-> <<"A">>]>>,
      <<[m_id |-> 10, m_value |-> <<"A">>],
        [m_id |-> 39, m_value |-> <<"Year3">>]>>,
      <<[m_id |-> 39, m_value |-> <<"Year3">>]>> }

\* the texts of its answers from the bracket after "filter": on
SavedTexts ==
    { <<"[", "{", "a", "}", "]", "a">>,
      <<"[", "\"", "]", "\"", "]">> }

\* the dict `value` of one filter: every string of m_value is True, and
\* grades has an 'All'
facet_value(name, raw_values) ==
    LET value == [v \in {raw_values[i] : i \in 1..Len(raw_values)} |-> True]
    IN IF name = "grades" /\ "All" \notin DOMAIN value
       THEN Put(value, "All", False)
       ELSE value

\* __analyze from the filter at i on: dict.__setitem__(self, name, value)
RECURSIVE analyze_from(_, _, _)
analyze_from(json, i, items) ==
    IF i > Len(json)
    THEN items
    ELSE LET f == json[i]
             name == IF f.m_id \in DOMAIN name_map
                     THEN name_map[f.m_id]
                     ELSE f.m_id
         IN analyze_from(json, i + 1,
                         Put(items, name, facet_value(name, f.m_value)))

analyze(json, items) == analyze_from(json, 1, items)

\* what the calls on the SavedFilter leave alone
saved_frame == <<loans, order_id, flags, locals, placed, svars, scan, cvars,
                 filter, normalizing,
                 prior, nvars>>

\* SavedFilter(lc, filter_id), or reload(): load() with its request
LoadSaved ==
    /\ pc = "idle"
    /\ \E text \in SavedTexts,
          rsp \in {"success", "No filters", "error"} \cup SessionErrors,
          parses \in BOOLEAN, loaded \in {<<>>} \cup SavedJson :
        LET json_text == filter_block(text)
        IN /\ call' = [op |-> "load", text |-> text]
           /\ sent' = <<[req |-> "getSavedFilter", rsp |-> rsp]>>
           /\ IF rsp \in SessionErrors
              THEN Abort(rsp) /\ UNCHANGED <<saved, scanned>>
              ELSE IF rsp # "success"
              THEN Abort("SavedFilterError") /\ UNCHANGED <<saved, scanned>>
              ELSE /\ scanned' = [text |-> text, json_text |-> json_text]
                   /\ IF ~parses \/ loaded = <<>>
                      THEN Abort("SavedFilterError") /\ UNCHANGED saved
                      ELSE /\ saved' = [json_text |-> Some(json_text),
                                        items |-> analyze(loaded, saved.items)]
                           /\ Return("None")
    /\ before' = [saved |-> saved]
    /\ seen' = None
    /\ UNCHANGED saved_frame

\* the keys and the values the caller assigns
SavedKeys == {"grades", "term"}
FacetKeys == {"A", "Year3"}

\* saved_filter[key] = value
SavedSetItem ==
    /\ pc = "idle"
    /\ saved.json_text # None
    /\ \E key \in SavedKeys, value \in Flags :
        call' = [op |-> "setitem", key |-> key, value |-> value]
    /\ Abort("SavedFilterError")
    /\ before' = [saved |-> saved]
    /\ sent' = <<>>
    /\ seen' = None
    /\ UNCHANGED <<saved, scanned, saved_frame>>

\* saved_filter[key][k] = value: Filter.__getitem__, then the assignment
\* on the dict it returned
SavedSetFacet ==
    /\ pc = "idle"
    /\ saved.json_text # None
    /\ \E key \in SavedKeys, k \in FacetKeys, value \in Flags :
        /\ call' = [op |-> "setfacet", key |-> key, k |-> k, value |-> value]
        /\ IF key \notin DOMAIN saved.items
           THEN Abort("KeyError") /\ UNCHANGED saved
           ELSE /\ saved' = [saved EXCEPT !.items[key] = Put(@, k, value)]
                /\ Return("None")
    /\ before' = [saved |-> saved]
    /\ sent' = <<>>
    /\ seen' = None
    /\ UNCHANGED <<scanned, saved_frame>>

\* saved_filter.search_string()
SavedSearchString ==
    /\ pc = "idle"
    /\ saved.json_text # None
    /\ call' = [op |-> "search_string"]
    /\ Return("json_text")
    /\ seen' = saved.json_text
    /\ before' = [saved |-> saved]
    /\ sent' = <<>>
    /\ UNCHANGED <<saved, scanned, saved_frame>>

\* the caller has the outcome and goes on
SavedContinue ==
    /\ pc = "done"
    /\ pc' = "idle"
    /\ call' = NoCall
    /\ result' = NoResult
    /\ sent' = <<>>
    /\ seen' = None
    /\ UNCHANGED <<before, saved, scanned, saved_frame>>

SavedNext ==
    \/ LoadSaved
    \/ SavedSetItem
    \/ SavedSetFacet
    \/ SavedSearchString
    \/ SavedContinue

SavedSpec == Init /\ [][SavedNext]_vars

\* ------------------------------------------------------------ properties

Idx == 1..Len(sent)
Requests(req) == {i \in Idx : sent[i].req = req}
Last == sent[Len(sent)]
Skips == already_staged /\ i_know_what_im_doing
Finished == pc = "done"
Failed == pc = "done" /\ result.exc \notin {"none", "running"}
Blank == {"absent", "", " "}

\* what the server said: did request e report success
Succeeded(e) ==
    CASE e.req = "clear" -> e.rsp = "ok"
      [] e.req = "search" ->
            /\ e.rsp = "success"
            /\ ~e.empty
            /\ ~e.foreign
            /\ e.totalRecords = Cardinality(e.loan_ids)
      [] e.req = "token" -> e.rsp = "page" /\ e.name \notin Blank /\ e.value \notin Blank
      [] e.req = "place" -> e.rsp = "page" /\ e.field = "int" /\ e.n # 0
      [] OTHER -> e.rsp = "success"

\* C1: once order_id is non-zero, every execute() call raises at once
\* (AssertionError), hands no request to the Session and leaves order_id and
\* the loan mapping as they were.
C1_ExecuteOnlyOnce ==
    (call.op = "execute" /\ before.order_id # 0)
        => /\ pc = "done"
           /\ result.exc = "AssertionError"
           /\ sent = <<>>
           /\ order_id = before.order_id
           /\ loans = before.loans

C1_Witness ==
    /\ call.op = "execute" /\ pc = "done"
    /\ before.order_id # 0 /\ before.loans # EmptyMap
    /\ placed # <<>>

\* C2: order_id is 0 until __place_order has returned an id; it is then set,
\* once, to the non-zero int of the order_id field of the confirmation page
\* answering the placement request, and no later call changes it.
C2_OrderIdAssignedOnce ==
    /\ [](placed = <<>> => order_id = 0)
    /\ [](Len(placed) <= 1)
    /\ [](placed # <<>> => order_id = placed[1] /\ order_id # 0)
    /\ [][order_id # 0 => order_id' = order_id]_vars
    /\ [][order_id' # order_id =>
            /\ call.op = "execute"
            /\ sent' # <<>>
            /\ sent'[Len(sent')].req = "place"
            /\ sent'[Len(sent')].rsp = "page"
            /\ sent'[Len(sent')].field = "int"
            /\ order_id' = sent'[Len(sent')].n]_vars

C2_Witness ==
    /\ placed # <<>>
    /\ pc = "done" /\ call.op = "add_batch" /\ result.exc = "none"
    /\ loans # before.loans
    /\ order_id = placed[1]

\* C3: every stored amount is a positive multiple of 25; add / update with an
\* amount that is zero, negative or not a multiple of 25 raises, and an add /
\* update that raises leaves the mapping as it was.
C3_AmountsMultipleOf25 ==
    /\ \A l \in DOMAIN loans : loans[l] > 0 /\ loans[l] % 25 = 0
    /\ (pc = "done" /\ call.op \in {"add", "update"})
        => /\ (call.amount <= 0 \/ call.amount % 25 # 0) => result.exc = "AssertionError"
           /\ result.exc # "none" => loans = before.loans

C3_Witness ==
    /\ pc = "done" /\ call.op = "add" /\ call.amount = 26
    /\ result.exc = "AssertionError"
    /\ before.loans # EmptyMap /\ loans = before.loans

\* C4: a successful add(l, a) leaves l mapped to a (also when l was in the
\* mapping with another amount) and every other entry as it was; remove(l)
\* takes l out of the mapping and leaves every other entry as it was.
C4_AddReplacesRemoveDeletes ==
    /\ (pc = "done" /\ call.op = "add" /\ result.exc = "none")
        => /\ DOMAIN loans = DOMAIN before.loans \cup {Val(call.arg.loan_id)}
           /\ loans[Val(call.arg.loan_id)] = call.amount
           /\ \A k \in DOMAIN before.loans \ {Val(call.arg.loan_id)} :
                  loans[k] = before.loans[k]
    /\ (pc = "done" /\ call.op = "remove")
        => /\ result.exc = "none"
           /\ DOMAIN loans = DOMAIN before.loans \ {call.loan_id}
           /\ \A k \in DOMAIN loans : loans[k] = before.loans[k]

C4_Witness ==
    /\ pc = "done" /\ call.op = "add" /\ result.exc = "none"
    /\ Val(call.arg.loan_id) \in DOMAIN before.loans
    /\ before.loans[Val(call.arg.loan_id)] # call.amount
    /\ loans[Val(call.arg.loan_id)] = call.amount
    /\ Cardinality(DOMAIN loans) > 1

\* C5: execute() on an empty mapping raises at once (AssertionError), hands
\* no request to the Session and leaves order_id as it was (0 for an Order
\* that has not been placed).
C5_EmptyExecuteRejected ==
    (call.op = "execute" /\ before.loans = EmptyMap)
        => /\ pc = "done"
           /\ result.exc = "AssertionError"
           /\ sent = <<>>
           /\ order_id = before.order_id
           /\ loans = EmptyMap

C5_Witness ==
    /\ call.op = "execute" /\ pc = "done"
    /\ before.loans = EmptyMap /\ before.order_id = 0
    /\ order_id = 0

\* C6 as claimed: once order_id is non-zero, add and remove raise and leave
\* the mapping as it was.
C6_AddRemoveRejectedWhenPlaced ==
    (pc = "done" /\ call.op \in {"add", "remove"} /\ before.order_id # 0)
        => (result.exc # "none" /\ loans = before.loans)

\* C6: add and remove do not look at order_id: on a placed Order add with a
\* valid loan id and amount still stores the amount, remove still deletes the
\* entry, and neither changes order_id.
C6_AddRemoveIgnoreOrderId ==
    (pc = "done" /\ before.order_id # 0)
        => /\ (call.op = "add" /\ call.amount > 0 /\ call.amount % 25 = 0
                 /\ ~IsNone(call.arg.loan_id))
              => /\ result.exc = "none"
                 /\ Val(call.arg.loan_id) \in DOMAIN loans
                 /\ loans[Val(call.arg.loan_id)] = call.amount
           /\ call.op = "remove"
              => /\ result.exc = "none"
                 /\ DOMAIN loans = DOMAIN before.loans \ {call.loan_id}
           /\ call.op \in {"add", "remove"} => order_id = before.order_id

C6_Witness ==
    /\ pc = "done" /\ before.order_id # 0 /\ order_id = before.order_id
    /\ call.op = "add" /\ result.exc = "none"
    /\ loans # before.loans

\* position of a request in the workflow of execute
Rank(req) ==
    CASE req = "clear" -> 1
      [] req = "search" -> 2
      [] req = "stage" -> 3
      [] req = "finalize" -> 4
      [] req = "token" -> 5
      [] req = "place" -> 6
      [] req = "folios" -> 7
      [] req = "assign" -> 8

\* the requests of an execute() that stages come in the order clear, search,
\* one add per loan of the mapping (its amount), finalize, token page,
\* placement, bucket list and assignment; none is skipped, the bucket
\* requests are made only for a portfolio name, and a request is made only
\* after the one before it has returned
InWorkflowOrder ==
    /\ sent # <<>> => sent[1].req = "clear"
    /\ \A i \in Idx \ {Len(sent)} :
          /\ sent[i].rsp \notin SessionErrors
          /\ \/ Rank(sent[i + 1].req) = Rank(sent[i].req) + 1
             \/ sent[i].req = "stage" /\ sent[i + 1].req = "stage"
    /\ \A i \in Requests("stage") :
          /\ sent[i].loan_id \in DOMAIN loans
          /\ sent[i].amount = loans[sent[i].loan_id]
          /\ \A j \in Requests("stage") : sent[j].loan_id = sent[i].loan_id => j = i
    /\ Requests("finalize") # {}
          => {sent[i].loan_id : i \in Requests("stage")} = DOMAIN loans
    /\ Requests("folios") # {} => Truthy(call.portfolio_name)
    /\ (pc = "done" /\ result.exc = "none")
          => Last.req = IF Truthy(call.portfolio_name) THEN "assign" ELSE "place"

\* C7 as claimed: the requests of execute() on an Order of start_order()
\* come in workflow order, and each of the steps clear, stage, finalize,
\* token, place, assign starts only after the step before it reported
\* success.
C7_StepsInOrderAfterSuccess ==
    (call.op = "execute" /\ ~Skips)
        => /\ InWorkflowOrder
           /\ \A i \in Idx \ {Len(sent)} :
                 sent[i].req # "folios" => Succeeded(sent[i])

\* C7: the requests of execute() on an Order of start_order() come in
\* workflow order, and each step after the clear starts only after the step
\* before it reported success; the answer to the clear request is not
\* examined, staging starts as soon as that request has returned.
C7_StepsInOrderAfterSuccessExceptClear ==
    (call.op = "execute" /\ ~Skips)
        => /\ InWorkflowOrder
           /\ \A i \in Idx \ {Len(sent)} :
                 sent[i].req \notin {"clear", "folios"} => Succeeded(sent[i])

C7_Witness ==
    /\ call.op = "execute" /\ ~Skips
    /\ pc = "done" /\ result.exc = "none" /\ result.ret = "True"
    /\ sent # <<>>
    /\ sent[1].req = "clear" /\ sent[1].rsp = "failed"
    /\ Cardinality(Requests("stage")) > 1
    /\ Last.req = "assign"

\* C8: when the pre-staging search, a per-loan add call or the finalize call
\* of execute() fails, that request is the last one of the call: execute()
\* raises, no further loan is staged, no token page is requested, no
\* placement is submitted and order_id stays 0.
C8_StagingFailureAborts ==
    call.op = "execute"
        => \A i \in Idx :
              (sent[i].req \in {"search", "stage", "finalize"} /\ ~Succeeded(sent[i]))
                 => /\ i = Len(sent)
                    /\ Failed
                    /\ Requests("token") = {} /\ Requests("place") = {}
                    /\ order_id = 0

C8_Witness ==
    /\ call.op = "execute" /\ Failed
    /\ Len(sent) > 3
    /\ Last.req = "stage" /\ Last.rsp = "error"
    /\ sent[Len(sent) - 1].req = "stage"
    /\ order_id = 0

\* C9: a placement request carries the token scraped from the token page
\* requested just before it in the same execute(): field name and value are
\* not empty; a scraped token is submitted once; when the field name or the
\* value is absent or empty, execute() raises with the token page as its last
\* request, so no placement is submitted, and order_id stays 0.
C9_TokenSubmittedOnce ==
    call.op = "execute"
        => /\ Cardinality(Requests("token")) <= 1
           /\ Cardinality(Requests("place")) <= 1
           /\ \A i \in Requests("place") :
                 /\ i > 1
                 /\ sent[i - 1].req = "token" /\ sent[i - 1].rsp = "page"
                 /\ sent[i].name = sent[i - 1].name
                 /\ sent[i].value = Strip(sent[i - 1].value)
                 /\ sent[i].name \notin Blank /\ sent[i].value \notin Blank
           /\ \A i \in Requests("token") :
                 /\ (Succeeded(sent[i]) /\ pc = "done") => i + 1 \in Requests("place")
                 /\ ~Succeeded(sent[i])
                       => i = Len(sent) /\ Failed /\ order_id = 0

C9_Witness ==
    /\ call.op = "execute" /\ Failed
    /\ sent # <<>>
    /\ Last.req = "token" /\ Last.rsp = "page"
    /\ Last.name = "token" /\ Last.value = " "
    /\ order_id = 0

\* C10: when the answer to the placement request holds no non-zero order
\* id, execute() raises with the placement as its last request (no bucket
\* request follows) and order_id stays 0; execute() never returns with
\* order_id 0.
C10_NoOrderIdIsFatal ==
    call.op = "execute"
        => /\ \A i \in Requests("place") :
                 ~Succeeded(sent[i])
                    => /\ i = Len(sent)
                       /\ Failed
                       /\ Requests("folios") = {} /\ Requests("assign") = {}
                       /\ order_id = 0
           /\ (pc = "done" /\ result.exc = "none") => order_id # 0

C10_Witness ==
    /\ call.op = "execute" /\ Failed
    /\ sent # <<>>
    /\ Last.req = "place" /\ Last.rsp = "page"
    /\ Last.field = "int" /\ Last.n = 0
    /\ Truthy(call.portfolio_name)
    /\ order_id = 0

\* C11: assign_to_portfolio() on an Order whose order_id is 0 raises at once
\* (AssertionError) and hands no request to the Session, neither the bucket
\* list nor the assignment; an assignment request names every loan of the
\* mapping once, each paired with the order_id of the Order, which is not 0.
C11_AssignNeedsPlacedOrder ==
    /\ (call.op = "assign_to_portfolio" /\ before.order_id = 0)
          => /\ pc = "done"
             /\ result.exc = "AssertionError"
             /\ sent = <<>>
    /\ \A i \in Requests("assign") :
          /\ order_id # 0
          /\ sent[i].loan_ids = DOMAIN loans
          /\ DOMAIN sent[i].order_ids = DOMAIN loans
          /\ \A l \in DOMAIN loans : sent[i].order_ids[l] = order_id
    /\ Cardinality(Requests("assign")) <= 1

C11_Witness ==
    /\ call.op = "assign_to_portfolio" /\ pc = "done"
    /\ result = Returned("True")
    /\ sent # <<>> /\ Last.req = "assign"
    /\ Cardinality(Last.loan_ids) > 1
    /\ \A l \in DOMAIN loans : Last.order_ids[l] = order_id

\* C12: the assignment request uses addToLCPortfolio exactly when the
\* requested name is one of the names of the bucket list fetched just before
\* it in the same call, and createLCPortfolio otherwise.
C12_MethodByBucketList ==
    \A i \in Requests("assign") :
        /\ i > 1
        /\ sent[i - 1].req = "folios"
        /\ sent[i].method \in {"addToLCPortfolio", "createLCPortfolio"}
        /\ sent[i].method = "addToLCPortfolio"
              <=> (sent[i - 1].rsp = "success" /\ sent[i].name \in sent[i - 1].names)

C12_Witness ==
    /\ pc = "done" /\ sent # <<>>
    /\ Last.req = "assign" /\ Last.method = "createLCPortfolio"
    /\ Last.name = "A"
    /\ sent[Len(sent) - 1].names = {"B"}

\* C13: when the answer to the assignment reports success but names another
\* bucket than the requested one, the call does not raise: it returns True.
C13_OtherBucketIsNotFatal ==
    (pc = "done" /\ sent # <<>> /\ Last.req = "assign" /\ Last.rsp = "success"
       /\ Last.answered \notin {"absent", Last.name})
        => result = Returned("True")

\* C14: when the answer to the pre-staging search holds a loan whose id is
\* not in the Order, execute() raises FilterValidationError with the search
\* as its last request (no loan is staged, no token page and no placement
\* requested) and order_id stays 0.
C14_ForeignLoanIsValidationError ==
    call.op = "execute"
        => \A i \in Requests("search") :
              sent[i].foreign
                 => /\ pc = "done"
                    /\ result.exc = "FilterValidationError"
                    /\ i = Len(sent)
                    /\ order_id = 0

\* C15: a per-loan staging call or a finalize call that does not report
\* success, a token page without a token, a confirmation page without an
\* order id and an assignment that does not report success each make the
\* call raise LendingClubError.
C15_OrderFailuresAreLendingClubError ==
    (pc = "done" /\ sent # <<>>
       /\ Last.req \in {"stage", "finalize", "token", "place", "assign"}
       /\ Last.rsp \notin SessionErrors /\ ~Succeeded(Last))
        => result.exc = "LendingClubError"

\* C16 as claimed: a NetworkError or AuthenticationError raised by the
\* Session in any request of execute() ends the call with that same error,
\* the failing request being the last one.
C16_SessionErrorsPropagate ==
    call.op = "execute"
        => \A i \in Idx :
              sent[i].rsp \in SessionErrors
                 => /\ i = Len(sent)
                    /\ pc = "done"
                    /\ result.exc = sent[i].rsp

\* C16: a NetworkError or AuthenticationError raised by the Session in a
\* request of execute() ends the call, the failing request being the last
\* one (nothing is retried); raised in the clear, search, staging, finalize
\* or bucket requests it reaches the caller as it is, raised in the token
\* page or the placement request it reaches the caller as LendingClubError.
C16_SessionErrorsPropagateExceptTokenAndPlace ==
    call.op = "execute"
        => \A i \in Idx :
              sent[i].rsp \in SessionErrors
                 => /\ i = Len(sent)
                    /\ pc = "done"
                    /\ result.exc = IF sent[i].req \in {"token", "place"}
                                    THEN "LendingClubError"
                                    ELSE sent[i].rsp

C16_Witness ==
    /\ call.op = "execute" /\ pc = "done"
    /\ sent # <<>>
    /\ Last.req = "place" /\ Last.rsp = "NetworkError"
    /\ result.exc = "LendingClubError"
    /\ order_id = 0

\* ------------------------------------------------- properties of Session

TIdx == 1..Len(trace)
Auths == {i \in TIdx : trace[i].ev = "authenticate"}
Https(path) == {i \in TIdx : trace[i].ev = "http" /\ trace[i].path = path}
Responses == {i \in TIdx : trace[i].ev = "http" /\ trace[i].responded}
Logs == {i \in TIdx : trace[i].ev = "log"}
Raises == {i \in TIdx : trace[i].ev = "raise"}
SessionCall == call.op \in {"request", "authenticate"}
Highest(S) == CHOOSE i \in S : \A j \in S : j <= i

\* C17: a request() that starts session_timeout minutes or more after
\* last_request_time runs authenticate() once, with the stored credentials,
\* and before its own HTTP call; a request() that starts earlier runs no
\* authenticate(); an authenticate() makes one login POST and that POST
\* starts no further authenticate().
C17_ReauthenticatesOnceOnTimeout ==
    /\ call.op = "request"
         => IF Abs(before.now - before.last_request_time) >= session_timeout * 60
            THEN /\ Cardinality(Auths) = 1
                 /\ \A i \in Auths :
                       /\ trace[i].email = before.email
                       /\ trace[i].password = before.pass
                       /\ \A j \in Https("login") \cup Https("call") : i < j
                 /\ \A i \in Https("login") :
                       /\ trace[i].payload.login_email = before.email
                       /\ trace[i].payload.login_password = before.pass
                       /\ \A j \in Https("call") : i < j /\ trace[i].responded
                 /\ Https("call") # {} => Https("login") # {}
            ELSE Auths = {} /\ Https("login") = {}
    /\ call.op = "authenticate" => Cardinality(Auths) = 1
    /\ SessionCall
         => /\ Cardinality(Https("login")) <= 1
            /\ Cardinality(Https("call")) <= 1
            /\ result.exc # "RuntimeError"

C17_Witness ==
    /\ call.op = "request" /\ pc = "done" /\ result = Returned("response")
    /\ before.now - before.last_request_time = session_timeout * 60
    /\ before.last_request_time > 0
    /\ Cardinality(Auths) = 1
    /\ Https("login") # {} /\ Https("call") # {}

\* C18 as claimed: when request() has ended, with a response or with an
\* exception, last_request_time is the time at which it ended.
C18_TimeRecordedOnEveryAttempt ==
    (call.op = "request" /\ pc = "done") => last_request_time = now

\* C18: request() sets last_request_time to the current time when its HTTP
\* call has returned a response; an HTTP call that raises (or a method that
\* is not supported) leaves last_request_time as it was before that HTTP
\* call: the time of the login response or of the start of authenticate()
\* when this request() re-authenticated, else the value from before.
C18_TimeRecordedOnResponse ==
    (call.op = "request" /\ pc = "done")
        => /\ result.exc = "none" => last_request_time = now
           /\ result.exc # "none"
                => last_request_time =
                      IF Responses # {} THEN trace[Highest(Responses)].at
                      ELSE IF Auths # {} THEN trace[Highest(Auths)].at
                      ELSE before.last_request_time

C18_Witness ==
    /\ call.op = "request" /\ pc = "done" /\ result.exc = "NetworkError"
    /\ Https("call") # {} /\ Auths = {}
    /\ last_request_time = before.last_request_time
    /\ last_request_time < now

C20_CredentialsNeverLogged ==
    SessionCall
        => \A i \in Logs : trace[i].data \cap (Emails \cup Passwords) = {}

\* C20: the first message of every authenticate() holds the email; the
\* password is held only by a Query or Data message, and only when the login
\* response carried the posted credentials in its x-echo-query or
\* x-echo-data header; the messages of request() hold neither.
C20_SecretLoggedOnlyWhenEchoed ==
    SessionCall
        => /\ \A i \in Auths :
                 /\ i + 1 \in Logs
                 /\ trace[i + 1].msg = "Attempting to authenticate"
                 /\ trace[i + 1].data = {trace[i].email}
           /\ \A i \in Logs :
                 /\ trace[i].data \cap Passwords # {}
                      => /\ trace[i].msg \in {"Query", "Data"}
                         /\ \E j \in Https("login") :
                               /\ j < i
                               /\ trace[j].responded
                               /\ IF trace[i].msg = "Query"
                                  THEN trace[j].response.echo_query = "posted"
                                  ELSE trace[j].response.echo_data = "posted"
                               /\ trace[i].data = {trace[j].payload.login_email,
                                                   trace[j].payload.login_password}
                 /\ trace[i].data \cap Emails # {}
                      => trace[i].msg \in {"Attempting to authenticate", "Query", "Data"}

C20_Witness ==
    /\ call.op = "request" /\ pc = "done" /\ result = Returned("response")
    /\ \E i \in Logs :
          /\ trace[i].msg = "Data"
          /\ trace[i].data = {"e2", "p2"}
    /\ \E i \in Logs :
          /\ trace[i].msg = "Attempting to authenticate"
          /\ trace[i].data = {"e2"}

\* ------------------------------------------------------ Filter properties

Letters(g) == {k \in GradeLetters : g[k] = True}
\* what a read of the Filter returns in this state
Observed == normalize(filter, normalizing).filter
\* the given keys that the facet map has, merged into it
Merged(old, given) ==
    [k \in DOMAIN old |-> IF k \in DOMAIN given THEN given[k] ELSE old[k]]
Mismatch(old, given) ==
    \E k \in DOMAIN old \cap DOMAIN given : ~SameType(old[k], given[k])

\* the facets of the specification on one record, with the funded percentage
\* (1 - unfunded / requested) * 100 computed exactly
GradeFails(f, r) ==
    f.grades["All"] # True /\ f.grades[GradeLetter(r.loanGrade)] # True
TermFails(f, r) ==
    LET year == IF r.loanLength = 36 THEN "Year3" ELSE "Year5"
    IN year \in DOMAIN f.term /\ f.term[year] = False
ProgressFails(f, r) ==
    /\ ~IsNone(f.funding_progress)
    /\ Val(f.funding_progress) * r.loanAmountRequested
          > (r.loanAmountRequested - r.loanUnfundedAmount) * 100
ExistingFails(f, r) == f.exclude_existing = True /\ r.alreadyInvestedIn
Satisfies(f, r) ==
    ~GradeFails(f, r) /\ ~TermFails(f, r) /\ ~ProgressFails(f, r)
        /\ ~ExistingFails(f, r)
FirstFacet(f, r) ==
    CASE GradeFails(f, r) -> "grade"
      [] TermFails(f, r) -> "loan term"
      [] ProgressFails(f, r) -> "funding progress"
      [] OTHER -> "exclude loans you are invested in"

\* C22 as claimed: whatever a read of the grades, search_string() or
\* validate() shows after any assignments, an enabled grade A-G comes with
\* grades["All"] false.
C22_EnabledGradeMeansNotAll ==
    (pc = "done" /\ result.exc \in {"none", "FilterValidationError"})
        => /\ (call.op = "getitem" /\ call.key = "grades")
                 => (Letters(Val(seen)) # {} => Val(seen)["All"] = False)
           /\ call.op = "search_string"
                 => (Letters(Val(seen).grades) # {}
                        => Val(seen).grades["All"] = False)
           /\ (call.op = "validate" /\ call.list # <<>>)
                 => (Letters(filter.grades) # {} => filter.grades["All"] = False)

\* C23 as claimed: after funding_progress is assigned an int p, the value a
\* read shows is a multiple of 10 at most 5 away from p, and normalizing it
\* again changes nothing.
C23_ProgressIsNearestTen ==
    (pc = "done" /\ call.op = "setitem" /\ call.key = "funding_progress"
        /\ ~IsNone(call.value))
        => LET p == Val(call.value)
               q == Val(Observed.funding_progress)
           IN /\ ~IsNone(Observed.funding_progress)
              /\ q % 10 = 0
              /\ Abs(q - p) <= 5
              /\ normalize_progress(q) = q

\* C24 as claimed: a dict given for the grades or the term, at construction
\* or by assignment, is merged into the facet, every key not given is kept
\* (All apart, which normalization may clear), and a value of another type
\* than the one it replaces is rejected.
C24_FacetsMergeAndCheckTypes ==
    (pc = "done" /\ call.op \in {"Filter", "setitem"}
        /\ call.key \in {"grades", "term"})
        => LET old == IF call.op = "Filter" THEN DefaultFilter[call.key]
                      ELSE before.filter[call.key]
               given == IF call.key = "term" /\ call.op = "setitem"
                        THEN call.value ELSE call.value.items
               isDict == (call.key = "term" /\ call.op = "setitem")
                            \/ call.value.kind = "dict"
           IN /\ (isDict /\ ~Mismatch(old, given))
                    => /\ result.exc = "none"
                       /\ DOMAIN filter[call.key] = DOMAIN old
                       /\ \A k \in DOMAIN old \ {"All"} :
                             filter[call.key][k] = Merged(old, given)[k]
              /\ (~isDict \/ Mismatch(old, given)) => result.exc # "none"

\* C24: given at construction, or assigned as the grades, the keys of the
\* dict that the facet has are merged into it, the other keys of the facet
\* are kept and keys the facet does not have are ignored (All apart, which
\* normalization may clear); a value of another type than the one it
\* replaces, or a value that is no dict, raises AssertionError, and keys
\* that were not given are kept then too.  A dict assigned as the term
\* replaces the term as it is and nothing is checked.
C24_GradesMergeTermIsReplaced ==
    (pc = "done" /\ call.op \in {"Filter", "setitem"}
        /\ call.key \in {"grades", "term"})
        => IF call.key = "term" /\ call.op = "setitem"
           THEN result.exc = "none" /\ filter.term = call.value
           ELSE LET old == IF call.op = "Filter" THEN DefaultFilter[call.key]
                           ELSE before.filter[call.key]
                    given == call.value.items
                    new == filter[call.key]
                IN IF call.value.kind = "dict" /\ ~Mismatch(old, given)
                   THEN /\ result.exc = "none"
                        /\ DOMAIN new = DOMAIN old
                        /\ \A k \in DOMAIN old \ {"All"} :
                              new[k] = Merged(old, given)[k]
                        /\ call.key = "grades"
                              => new["All"] \in {Merged(old, given)["All"], False}
                   ELSE /\ result.exc = "AssertionError"
                        /\ call.op = "Filter" => filter = before.filter
                        /\ call.op = "setitem"
                              => /\ DOMAIN new = DOMAIN old
                                 /\ \A k \in DOMAIN old \ DOMAIN given :
                                       new[k] = old[k]
                                 /\ \A k \in DOMAIN old \cap DOMAIN given :
                                       new[k] = old[k] \/ new[k] = given[k]

C24_Witness ==
    /\ pc = "done" /\ call.op = "setitem" /\ result.exc = "none"
    /\ call.key = "grades"
    /\ call.value.kind = "dict"
    /\ DOMAIN call.value.items = {"A", "Z"}
    /\ call.value.items["A"] = True
    /\ before.filter.grades["B"] = True
    /\ filter.grades = [k \in GradeKeys |-> IF k = "All" THEN False ELSE True]

\* C25 as claimed: validate returns True exactly when every record
\* satisfies every facet; otherwise it raises FilterValidationError for the
\* first record that fails a facet, with the first facet that record fails.
C25_ValidateFindsFirstFailure ==
    (pc = "done" /\ call.op = "validate")
        => LET failing == {i \in 1..Len(call.list) :
                              ~Satisfies(filter, call.list[i])}
           IN IF failing = {}
              THEN result = Returned("True")
              ELSE /\ result.exc = "FilterValidationError"
                   /\ ~IsNone(seen)
                   /\ \A j \in failing : Val(seen).index <= j
                   /\ Val(seen).index \in failing
                   /\ Val(seen).criteria = FirstFacet(filter, call.list[Val(seen).index])

\* C26 as claimed: validate leaves every item of the Filter as it was
\* before the call.
C26_ValidateLeavesFilterUnchanged ==
    (pc = "done" /\ call.op = "validate") => filter = before.filter

\* C26: validate leaves every item of the Filter as it was, whether it
\* returns or raises, except that the normalization of its first read may
\* set grades["All"] to false when it was true while a grade A-G was
\* enabled.
C26_ValidateOnlyClearsAll ==
    (pc = "done" /\ call.op = "validate")
        => /\ filter.term = before.filter.term
           /\ filter.funding_progress = before.filter.funding_progress
           /\ filter.exclude_existing = before.filter.exclude_existing
           /\ \A k \in GradeLetters : filter.grades[k] = before.filter.grades[k]
           /\ \/ filter.grades["All"] = before.filter.grades["All"]
              \/ /\ before.filter.grades["All"] = True
                 /\ Letters(before.filter.grades) # {}
                 /\ filter.grades["All"] = False

C26_Witness ==
    /\ pc = "done" /\ call.op = "validate"
    /\ result.exc = "FilterValidationError"
    /\ before.filter.grades["All"] = True
    /\ filter.grades["All"] = False
    /\ filter.term = before.filter.term

\* C27 as claimed: a record that reaches the funding-progress check is
\* rejected on it exactly when the threshold of the Filter is greater than
\* the funded percentage (1 - unfunded / requested) * 100 computed exactly.
C27_ProgressComparedExactly ==
    (pc = "done" /\ call.op = "validate" /\ Len(call.list) = 1
        /\ ~IsNone(filter.funding_progress)
        /\ ~GradeFails(filter, call.list[1])
        /\ ~TermFails(filter, call.list[1])
        /\ result.exc \in {"none", "FilterValidationError"})
        => ((result.exc = "FilterValidationError"
                /\ Val(seen).criteria = "funding progress")
            <=> ProgressFails(filter, call.list[1]))

\* C28 as claimed: search(filters) returns results only when every loan of
\* the answer satisfies the Filter, and raises FilterValidationError when
\* the answer holds a loan that does not.
C28_SearchReturnsOnlyMatchingLoans ==
    (pc = "done" /\ call.op = "search" /\ result.exc # "TypeError")
        => LET bad == {i \in 1..Len(call.list) :
                          ~Satisfies(filter, call.list[i])}
           IN /\ result = Returned("results") => bad = {}
              /\ (call.success /\ bad # {})
                    => result.exc = "FilterValidationError"

\* ------------------------------------------------- build_portfolio properties

\* the options of the running / last build_portfolio, once answered with a
\* list that the loop went through
Scanned ==
    /\ call.op = "build_portfolio"
    /\ pc \in {"build_recommend", "build_fractions", "build_reset", "done"}
    /\ \E i \in Idx : /\ sent[i].req = "options"
                      /\ sent[i].err = "none"
                      /\ sent[i].rsp = [success |-> TRUE, lmOptions |-> "list",
                                        numberTicks |-> 1]
ScannedOptions == sent[CHOOSE i \in Idx : sent[i].req = "options"].options
\* the position (from 1) where the scan of C29 stops: the first option at or
\* over max_percent, Len + 1 without one
StopAt(opts, hi) ==
    IF \E k \in 1..Len(opts) : opts[k] >= hi
    THEN CHOOSE k \in 1..Len(opts) :
            opts[k] >= hi /\ \A j \in 1..(k - 1) : opts[j] < hi
    ELSE Len(opts) + 1
\* the position (from 1) of the option C29 selects, 0 when it selects none
Chosen(opts, lo, hi) ==
    LET stop == StopAt(opts, hi)
        seen_before == {j \in 1..(stop - 1) : opts[j] >= lo}
    IN IF stop <= Len(opts) /\ opts[stop] = hi
       THEN stop
       ELSE IF seen_before = {}
       THEN 0
       ELSE CHOOSE j \in seen_before :
               /\ \A k \in seen_before : opts[k] <= opts[j]
               /\ \A k \in seen_before : opts[k] = opts[j] => j <= k
Ascending(opts) == \A j, k \in 1..Len(opts) : j < k => opts[j] <= opts[k]

\* C29: after the scan of the options in order, the option selected is the
\* first one equal to max_percent when the scan meets it before any option
\* over max_percent, else the highest one >= min_percent before the first
\* option over max_percent; the recommendPortfolio request carries its
\* position (from 0); when there is none, build_portfolio returns False and
\* sends no recommendPortfolio request.
C29_SelectsByScanningInOrder ==
    Scanned
        => LET opts == ScannedOptions
               chosen == Chosen(opts, call.min_percent, call.max_percent)
           IN /\ chosen = 0
                    => /\ pc = "done" /\ result = Returned("False")
                       /\ Requests("recommend") = {}
                       /\ IsNone(scan.match_option)
              /\ chosen # 0
                    => /\ scan.match_option = Some(opts[chosen])
                       /\ scan.match_index = chosen - 1
                       /\ pc # "build_recommend" => Requests("recommend") # {}
                       /\ \A i \in Requests("recommend") :
                             sent[i].lending_match_point = chosen - 1
              /\ (opts = <<9, 12, 15, 18>> /\ call.max_percent \in {15, 16}
                    /\ call.min_percent <= 15)
                    => scan.match_option = Some(15)

C29_Witness ==
    /\ Scanned /\ pc = "done" /\ result = Returned("match_option")
    /\ ScannedOptions = <<9, 12, 15, 18>>
    /\ call.min_percent = 10 /\ call.max_percent = 16
    /\ \E i \in Requests("recommend") : sent[i].lending_match_point = 2

\* C30 as claimed: an option that build_portfolio selects has min_percent <=
\* percentage <= max_percent, whatever the options and the two values; and
\* of options in ascending order it is the one in that band closest to
\* max_percent.
C30_SelectedWithinBand ==
    (Scanned /\ ~IsNone(scan.match_option))
        => LET opts == ScannedOptions
               p == Val(scan.match_option)
               band == {j \in 1..Len(opts) : call.min_percent <= opts[j]
                                              /\ opts[j] <= call.max_percent}
           IN /\ call.min_percent <= p
              /\ p <= call.max_percent
              /\ Ascending(opts) => \A j \in band : opts[j] <= p

\* ------------------------------------------------ concurrent use: properties

\* C21: as long as a single thread calls request(), one expiry of the
\* session leads to at most one authenticate(), and no request goes out on
\* a session object whose authenticate() has not ended.  (With a second
\* thread both happen: C21_Witness.)
C21_SingleCallerNeverRaces ==
    callers = {1} => (auth_calls <= 1 /\ ~stale)

C21_Witness ==
    /\ callers = Callers
    /\ auth_calls = 2
    /\ stale
    /\ \E c \in callers :
          /\ cpc[c] = "http"
          /\ posted[c] = session
          /\ posted[c] \notin logged_in
          /\ \E d \in callers \ {c} : logging_in[d] = session

\* ------------------------------------------------------ add_batch properties
BatchCall == pc = "done" /\ call.op = "add_batch_list"
\* the elements of the finished call's list that name loan l
Naming(l) ==
    {i \in DOMAIN call.list : ~IsNone(call.list[i].loan_id) /\ Val(call.list[i].loan_id) = l}
\* the amount element i asks for: batch_amount when given, else its own
Asked(i) ==
    IF ~IsNone(call.batch_amount) THEN Val(call.batch_amount)
    ELSE Val(call.list[i].invest_amount)
BareIdWithoutAmount ==
    /\ IsNone(call.batch_amount)
    /\ \E i \in DOMAIN call.list : call.list[i].kind = "int"

\* C34 (as stated): a finished add_batch that raised nothing has added every
\* element of its list, each listed loan with batch_amount when that is given
\* and each dict element with its own invest_amount when it is not; a bare
\* loan id without batch_amount, and a loans argument that is not a list,
\* raise an error.
C34_EveryElementEndsWithItsAmount ==
    BatchCall =>
        /\ (~call.islist => result.exc # "none")
        /\ (BareIdWithoutAmount => result.exc # "none")
        /\ (result.exc = "none" =>
                \A i \in DOMAIN call.list :
                    LET l == Val(call.list[i].loan_id)
                    IN l \in DOMAIN loans /\ loans[l] = Asked(i))

\* C34 (amended): as above, except that of several elements naming the same
\* loan the last one decides the amount the loan ends with.
C34_LastElementOfALoanDecides ==
    BatchCall =>
        /\ (~call.islist => result.exc # "none")
        /\ (BareIdWithoutAmount => result.exc # "none")
        /\ (result.exc = "none" =>
                \A i \in DOMAIN call.list :
                    LET l == Val(call.list[i].loan_id)
                    IN /\ l \in DOMAIN loans
                       /\ loans[l] = Asked(Highest(Naming(l))))

\* a returned add_batch without batch_amount whose list names one loan twice
\* with two amounts, and one with batch_amount that overrode an invest_amount
C34_Witness ==
    /\ BatchCall
    /\ result.exc = "none"
    /\ IsNone(call.batch_amount)
    /\ Len(call.list) = 2
    /\ call.list[1].loan_id = call.list[2].loan_id
    /\ call.list[1].invest_amount # call.list[2].invest_amount
    /\ loans[Val(call.list[2].loan_id)] = Val(call.list[2].invest_amount)

\* ------------------------------------------------ properties of a repeated execute
\* C37: an execute() that raises because its placement request brought no
\* order id leaves order_id 0 and the loan mapping as it was; the execute()
\* called next on that Order is not rejected by its asserts, and when it
\* reaches the placement it has sent the requests of the whole workflow
\* again, its placement request being a second one for the Order.
C37_ExecuteRepeatsAfterFailedPlacement ==
    /\ (pc = "done" /\ ended = "placement")
          => /\ order_id = 0
             /\ loans = before.loans
             /\ placed = <<>>
             /\ execute_asserts(order_id, loans)
    /\ (prior = "placement" /\ call.op = "execute")
          => /\ ~(pc = "done" /\ sent = <<>>)
             /\ InWorkflowOrder
             /\ \A i \in Requests("place") :
                   /\ i > 1
                   /\ {"clear", "search", "stage", "finalize", "token"}
                         \subseteq {sent[j].req : j \in 1..(i - 1)}

\* the execute() after a failed placement has sent its own placement request
C37_Witness ==
    /\ prior = "placement" /\ call.op = "execute"
    /\ pc = "done"
    /\ sent # <<>> /\ Last.req = "place"
    /\ order_id # 0

\* ------------------------------------------- properties of a failed assignment
\* C38: when execute(portfolio_name) raises after its placement request
\* brought an order id (the assignment step raised), order_id is that id and
\* not 0, so that an execute() is rejected by its asserts from then on and
\* the assert of assign_to_portfolio() lets a new call through.
C38_PlacedWhenAssignmentRaises ==
    (call.op = "execute" /\ Failed /\ \E i \in Requests("place") : Succeeded(sent[i]))
        => /\ order_id # 0
           /\ placed # <<>> /\ order_id = placed[Len(placed)]
           /\ \A i \in Requests("place") : order_id = sent[i].n
           /\ ~execute_asserts(order_id, loans)
           /\ assign_asserts(order_id)

\* --------------------------------------- properties of a failed re-authentication
\* C39: every authenticate() puts a new object in place of the one __session
\* held and sets last_request_time to the time it runs at, before its login
\* POST goes out (on the new object) and whatever that POST brings; a
\* request() whose re-authentication raises sends no HTTP call of its own;
\* the request() made next, less than session_timeout after
\* last_request_time, runs no authenticate() and sends its HTTP call on that
\* object, which is not logged in.
C39_FailedReauthenticationLeavesNewSession ==
    /\ (call.op \in {"request", "authenticate"}) =>
          \A i \in Auths :
              /\ trace[i].created # before.session
              /\ session = trace[i].created
              /\ last_request_time >= trace[i].at
              /\ (pc = "login" => last_request_time = trace[i].at)
              /\ \A j \in Https("login") :
                    /\ i < j
                    /\ trace[j].on = trace[i].created
                    /\ ~trace[j].responded => last_request_time = trace[i].at
    /\ (pc = "done" /\ request_ended = "reauthentication")
          => /\ Https("call") = {}
             /\ session # before.session
             /\ session \notin logged_in
    /\ (/\ prior = "reauthentication"
        /\ call.op = "request"
        /\ ~session_expired(before.now, before.last_request_time))
          => /\ Auths = {} /\ Https("login") = {}
             /\ session = before.session
             /\ session \notin logged_in
             /\ \A j \in Https("call") : trace[j].on = session
             /\ (pc = "done" /\ call.method \in Supported) => Https("call") # {}

\* after a re-authentication that failed, a request() inside the timeout
\* window was answered on the object the failed authenticate() created
C39_Witness ==
    /\ prior = "reauthentication"
    /\ call.op = "request" /\ pc = "done"
    /\ before.now > before.last_request_time
    /\ ~session_expired(before.now, before.last_request_time)
    /\ Auths = {}
    /\ result = Returned("response")
    /\ \E j \in Https("call") : trace[j].on = session /\ session \notin logged_in

\* ------------------------------------- build_portfolio: fractions and investing
BuildCall == call.op = "build_portfolio"
\* the fractions of request i that are over max_per_note, and those the
\* Filter given rejects
OverCap(i) ==
    {k \in DOMAIN sent[i].fractions :
        sent[i].fractions[k].loanFractionAmount > call.max_per_note}
Rejected(i) ==
    {k \in DOMAIN sent[i].fractions :
        call.filters # "None" /\ ~Satisfies(filter, sent[i].fractions[k].loan)}
Investing == Requests("token") \cup Requests("place")

\* C31: when a fraction of the answer to the getPortfolio request is over
\* max_per_note, build_portfolio raises LendingClubError with that request
\* as its last one: it returns nothing, no Order has got loans or flags, no
\* token page is fetched and no order placed.
C31_FractionOverMaxPerNoteIsFatal ==
    BuildCall =>
        \A i \in Requests("fractions") :
            (sent[i].err = "none" /\ OverCap(i) # {})
                => /\ pc = "done"
                   /\ result = Raised("LendingClubError")
                   /\ i = Len(sent)
                   /\ Investing = {}
                   /\ loans = EmptyMap /\ ~already_staged /\ ~i_know_what_im_doing
                   /\ order_id = 0 /\ placed = <<>>

\* an investing call raised over the second fraction, the first being fine
C31_Witness ==
    /\ BuildCall /\ call.automatically_invest
    /\ pc = "done" /\ result = Raised("LendingClubError")
    /\ sent # <<>> /\ Last.req = "fractions"
    /\ OverCap(Len(sent)) = {2}

\* C32: a build_portfolio with automatically_invest fetches the token page
\* and posts the placement only after the one getPortfolio answer of the
\* call, and only when no fraction of it is over max_per_note and none is
\* rejected by the Filter given; when a fraction fails one of the two, the
\* call ends without a token request and without a placement request.
C32_InvestsOnlyAfterBothChecks ==
    (BuildCall /\ call.automatically_invest) =>
        /\ Cardinality(Requests("fractions")) <= 1
        /\ (pc \in {"token", "place"} \/ Investing # {})
              => \E i \in Requests("fractions") :
                    /\ \A j \in Investing : i < j
                    /\ sent[i].err = "none"
                    /\ OverCap(i) = {}
                    /\ Rejected(i) = {}
        /\ \A i \in Requests("fractions") :
              (OverCap(i) # {} \/ Rejected(i) # {})
                 => pc = "done" /\ Failed /\ Investing = {}

\* an investing call with a Filter placed its order
C32_Witness ==
    /\ BuildCall /\ call.automatically_invest /\ call.filters = "Filter"
    /\ pc = "done" /\ result = Returned("order_id")
    /\ Requests("token") # {} /\ Requests("place") # {}
    /\ \E i \in Requests("fractions") : Len(sent[i].fractions) = 2

\* C40: the Order of a build_portfolio with automatically_invest has both
\* flags set and the fractions as its loans, and its execute() never stages:
\* after the getPortfolio answer the call sends the token request and then
\* the placement request, nothing else; so no clear request lies between the
\* recommendPortfolio request for the selected option and the placement.
C40_InvestedOrderSkipsStaging ==
    (BuildCall /\ call.automatically_invest) =>
        /\ pc \notin {"clear", "search", "stage", "finalize", "folios", "assign"}
        /\ \A i \in Requests("fractions") :
              /\ \A j \in Idx : j > i => sent[j].req \in {"token", "place"}
              /\ (i + 1 \in Idx => sent[i + 1].req = "token")
              /\ (i + 2 \in Idx => sent[i + 2].req = "place")
              /\ Len(sent) <= i + 2
              /\ (pc \in {"token", "place"} \/ Investing # {})
                    => /\ already_staged /\ i_know_what_im_doing
                       /\ DOMAIN loans =
                             {Val(sent[i].fractions[k].loan_id) :
                                 k \in DOMAIN sent[i].fractions}
                       /\ \A k \in DOMAIN sent[i].fractions :
                             loans[Val(sent[i].fractions[k].loan_id)]
                                = sent[i].fractions[k].loanFractionAmount
        /\ \A p \in Requests("place") :
              \E r \in Requests("recommend") :
                  /\ r < p
                  /\ sent[r].err = "none"
                  /\ sent[r].lending_match_point = scan.match_index
                  /\ \A j \in (r + 1)..(p - 1) :
                        sent[j].req \notin {"clear", "recommend", "options"}

\* an investing call returned the id of the order it placed
C40_Witness ==
    /\ BuildCall /\ call.automatically_invest
    /\ pc = "done" /\ result = Returned("order_id") /\ order_id # 0
    /\ Len(sent) >= 3
    /\ Last.req = "place"
    /\ sent[Len(sent) - 1].req = "token"
    /\ sent[Len(sent) - 2].req = "fractions"
    /\ Requests("clear") = {1}

\* ------------------------------------------------------- get_note properties
\* the account holds a note with this id
Held(note_id) == \E k \in 1..account : note_id_of(k) = note_id

\* C35: a get_note(note_id) whose page requests were all answered with
\* success asks for the pages in steps of 100 from 0 on, never for a page
\* past the first empty one, and ends by returning the note when the account
\* holds a note with that id and by returning False when it holds none.
C35_GetNoteReturnsNoteOrFalse ==
    call.op = "get_note" =>
        /\ \A i \in Idx : sent[i].startindex = (i - 1) * limit
        /\ \A i \in Idx \ {Len(sent)} : sent[i].loans # {}
        /\ (pc = "done" /\ \A i \in Idx : sent[i].rsp = "success")
              => result = IF Held(call.note_id)
                          THEN Returned("note") ELSE Returned("False")

\* the position in text of the bracket that closes its first bracket, 0
\* when there is none: a bracket or brace between quotes is not counted,
\* and a quote after an escape character neither opens nor closes
RECURSIVE closing(_, _, _, _, _)
closing(text, i, closers, quote, escaped) ==
    IF i > Len(text)
    THEN 0
    ELSE LET c == text[i]
         IN IF c = "\\"
            THEN closing(text, i + 1, closers, quote, ~escaped)
            ELSE IF c \in quotes
            THEN closing(text, i + 1, closers,
                         IF escaped THEN quote
                         ELSE IF quote = "" THEN c
                         ELSE IF quote = c THEN ""
                         ELSE quote,
                         FALSE)
            ELSE IF quote # ""
            THEN closing(text, i + 1, closers, quote, FALSE)
            ELSE IF c \in DOMAIN blockChars
            THEN closing(text, i + 1, <<blockChars[c]>> \o closers, quote, FALSE)
            ELSE IF Len(closers) > 0 /\ c = closers[1]
            THEN IF Len(closers) = 1
                 THEN i
                 ELSE closing(text, i + 1, Tail(closers), quote, FALSE)
            ELSE closing(text, i + 1, closers, quote, FALSE)

Closing(text) == closing(text, 1, <<>>, "", FALSE)

\* C36: the text the scanner extracts is the text from the opening bracket
\* up to and including its matching bracket, where brackets and braces
\* inside a quoted string are not counted and an escaped quote does not
\* open or close a quoted string.
C36_ScannerSkipsQuotedBrackets ==
    (scanned # NoText /\ Closing(scanned.text) > 0) =>
        scanned.json_text = SubSeq(scanned.text, 1, Closing(scanned.text))

\* C33: once a saved filter is loaded, an assignment on it or on one of its
\* facet maps changes neither its items nor its json_text, and
\* search_string() returns the text that load() extracted.
C33_SavedFilterIsNeverChanged ==
    pc = "done" =>
        /\ call.op \in {"setitem", "setfacet"} => saved = before.saved
        /\ call.op = "search_string" =>
              /\ saved = before.saved
              /\ seen = saved.json_text
        /\ (call.op = "load" /\ result.exc = "none") =>
              saved.json_text = Some(scanned.json_text)

====
